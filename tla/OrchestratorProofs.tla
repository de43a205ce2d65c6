------------------------- MODULE OrchestratorProofs -------------------------
(***************************************************************************)
(* Proofs about the orchestrator, for every set of orders and workers, any *)
(* retry limit and any number of resumes.                                  *)
(***************************************************************************)
EXTENDS OrderTimeline, SagaRows, SequenceTheorems, FiniteSetTheorems, TLAPS

-----------------------------------------------------------------------------
(* Sequences.                                                              *)

LEMMA AppendOne == ASSUME NEW a, NEW b PROVE Append(<<a>>, b) = <<a, b>>
  <1> DEFINE s == Append(<<a>>, b)
             t == <<a, b>>
  <1>1. s \in Seq({a, b}) /\ t \in Seq({a, b}) /\ Len(s) = 2 /\ Len(t) = 2
    OBVIOUS
  <1>2. s[1] = t[1] /\ s[2] = t[2]
    OBVIOUS
  <1> HIDE DEF s, t
  <1>3. \A i \in 1..Len(s) : s[i] = t[i]
    BY <1>1, <1>2
  <1>4. s = t
    BY <1>1, <1>3, SeqEqual
  <1> QED
    BY <1>4 DEF s, t

LEMMA AppendTwo == ASSUME NEW a, NEW b, NEW c PROVE Append(<<a, b>>, c) = <<a, b, c>>
  <1> DEFINE s == Append(<<a, b>>, c)
             t == <<a, b, c>>
  <1>1. s \in Seq({a, b, c}) /\ t \in Seq({a, b, c}) /\ Len(s) = 3 /\ Len(t) = 3
    OBVIOUS
  <1>2. s[1] = t[1] /\ s[2] = t[2] /\ s[3] = t[3]
    OBVIOUS
  <1> HIDE DEF s, t
  <1>3. \A i \in 1..Len(s) : s[i] = t[i]
    BY <1>1, <1>2
  <1>4. s = t
    BY <1>1, <1>3, SeqEqual
  <1> QED
    BY <1>4 DEF s, t

LEMMA PrefixGrows ==
  ASSUME NEW S, NEW u \in Seq(S), NEW k \in Nat, k < Len(u)
  PROVE  /\ Append(SubSeq(u, 1, k), u[k + 1]) = SubSeq(u, 1, k + 1)
         /\ Len(SubSeq(u, 1, k + 1)) = k + 1
         /\ u[k + 1] \in S
  <1> DEFINE p == SubSeq(u, 1, k)
             q == SubSeq(u, 1, k + 1)
             a == Append(p, u[k + 1])
  <1>1. \A i \in 1..Len(u) : u[i] \in S
    BY ElementOfSeq
  <1>2. p \in Seq(S) /\ Len(p) = k /\ \A i \in 1..k : p[i] = u[i]
    <2>1. \A i \in 1..k : u[i] \in S
      BY <1>1, LenProperties
    <2>2. k \in Int /\ 1 \in Int
      OBVIOUS
    <2> QED
      BY <2>1, <2>2, SubSeqProperties
  <1>3. q \in Seq(S) /\ Len(q) = k + 1 /\ \A i \in 1..(k + 1) : q[i] = u[i]
    <2>1. \A i \in 1..(k + 1) : u[i] \in S
      BY <1>1, LenProperties
    <2>2. k + 1 \in Int /\ 1 \in Int
      OBVIOUS
    <2> QED
      BY <2>1, <2>2, SubSeqProperties
  <1>4. u[k + 1] \in S
    BY <1>1, LenProperties
  <1> HIDE DEF p, q
  <1>5. a \in Seq(S) /\ Len(a) = k + 1 /\ \A i \in 1..(k + 1) : a[i] = q[i]
    BY <1>2, <1>3, <1>4
  <1> HIDE DEF a
  <1>6. a = q
    BY <1>3, <1>5, SeqEqual
  <1> QED
    BY <1>3, <1>4, <1>6 DEF a, p, q

LEMMA ShorterPrefix ==
  ASSUME NEW c \in Seq(StepNames), NEW j \in 1..Len(c)
  PROVE  /\ Len(SubSeq(c, 1, j)) = j
         /\ SubSeq(SubSeq(c, 1, j), 1, j - 1) = SubSeq(c, 1, j - 1)
  <1>1. \A i \in 1..Len(c) : c[i] \in StepNames
    BY ElementOfSeq
  <1>2. SubSeq(c, 1, j) \in Seq(StepNames) /\ Len(SubSeq(c, 1, j)) = j
    BY <1>1, SubSeqProperties
  <1>3. CASE j = 1
    BY <1>2, <1>3, SubSeqEmpty
  <1>4. CASE j > 1
    BY <1>2, <1>4, SubSeqOfSubSeq
  <1> QED
    BY <1>2, <1>3, <1>4

LEMMA LongerAllTrue ==
  ASSUME NEW S, NEW u \in Seq(S), NEW x \in S, NEW Good, x \in Good,
         \A i \in DOMAIN u : u[i] \in Good
  PROVE  \A i \in DOMAIN Append(u, x) : Append(u, x)[i] \in Good
  <1>1. /\ DOMAIN Append(u, x) = 1..(Len(u) + 1) /\ DOMAIN u = 1..Len(u)
        /\ Append(u, x)[Len(u) + 1] = x
        /\ \A i \in 1..Len(u) : Append(u, x)[i] = u[i]
        /\ Len(u) \in Nat
    BY LenProperties, AppendProperties
  <1>2. \A i \in 1..(Len(u) + 1) : i \in 1..Len(u) \/ i = Len(u) + 1
    BY <1>1
  <1> QED
    BY <1>1, <1>2

-----------------------------------------------------------------------------
(* The tables.                                                             *)

LEMMA Tables ==
  ASSUME NEW operation \in ForwardOperations
  PROVE  /\ CompletedBefore[operation] \in Seq(StepNames)
         /\ UndoAfter[operation] \in Seq(StepNames)
         /\ StepFor[operation] \in StepNames
         /\ operation # "FINALIZE_INVENTORY" =>
              /\ Successor[operation] \in ForwardOperations
              /\ Append(CompletedBefore[operation], StepFor[operation])
                   = CompletedBefore[Successor[operation]]
         /\ (CompletedBefore[operation] = <<>>) <=> (operation = "CHARGE_PAYMENT")
         /\ (UndoAfter[operation] # <<>>) <=>
              (operation \in {"RESERVE_INVENTORY", "CREATE_SHIPMENT"})
  <1> USE DEF CompletedBefore, UndoAfter, StepFor, Successor, Steps, StepNames,
              ForwardOperations
  <1>1. CASE operation = "CHARGE_PAYMENT"
    BY <1>1
  <1>2. CASE operation = "RESERVE_INVENTORY"
    BY <1>2, AppendOne
  <1>3. CASE operation = "CREATE_SHIPMENT"
    BY <1>3, AppendTwo
  <1>4. CASE operation = "FINALIZE_INVENTORY"
    BY <1>4
  <1> QED
    BY <1>1, <1>2, <1>3, <1>4

LEMMA ReverseIsOperation ==
  ASSUME NEW step \in StepNames
  PROVE  ReverseOperation[step] \in CompensatingOperations
  BY DEF StepNames, ReverseOperation, CompensatingOperations

(* What is undone after a rejection is what was complete, last first.       *)
LEMMA UndoReverses ==
  ASSUME NEW operation \in ForwardOperations, operation # "FINALIZE_INVENTORY"
  PROVE  LET done == CompletedBefore[operation]
             undone == UndoAfter[operation]
         IN /\ Len(undone) = Len(done)
            /\ \A i \in DOMAIN done : undone[i] = done[Len(done) + 1 - i]
  <1> USE DEF CompletedBefore, UndoAfter
  <1>1. CASE operation = "CHARGE_PAYMENT"
    BY <1>1
  <1>2. CASE operation = "RESERVE_INVENTORY"
    BY <1>2
  <1>3. CASE operation = "CREATE_SHIPMENT"
    BY <1>3
  <1> QED
    BY <1>1, <1>2, <1>3 DEF ForwardOperations

LEMMA ForwardTables ==
  ASSUME NEW operation \in ForwardOperations
  PROVE  /\ (CompletedBefore[operation] = Steps) <=> (operation = "FINALIZE_INVENTORY")
         /\ operation # "FINALIZE_INVENTORY" =>
              Steps[Len(CompletedBefore[operation]) + 1] = StepFor[operation]
         /\ Len(UndoAfter[operation]) <= Len(CompletedBefore[operation])
         /\ UndoAfter[operation] # <<>> =>
              Len(UndoAfter[operation]) = Len(CompletedBefore[operation])
  <1> USE DEF CompletedBefore, UndoAfter, StepFor, Steps, ForwardOperations
  <1>1. CASE operation = "CHARGE_PAYMENT"
    BY <1>1
  <1>2. CASE operation = "RESERVE_INVENTORY"
    BY <1>2
  <1>3. CASE operation = "CREATE_SHIPMENT"
    BY <1>3
  <1>4. CASE operation = "FINALIZE_INVENTORY"
    BY <1>4
  <1> QED
    BY <1>1, <1>2, <1>3, <1>4

LEMMA HeldForward ==
  ASSUME NEW s, s.completedSteps \in Seq(StepNames), s.compensatedSteps = <<>>
  PROVE  Held(s) = s.completedSteps
  <1>1. Len(<<>>) = 0
    OBVIOUS
  <1>2. Len(s.completedSteps) - 0 = Len(s.completedSteps)
    OBVIOUS
  <1> QED
    BY <1>1, <1>2, SubSeqFull DEF Held

-----------------------------------------------------------------------------
(* Rows and participants.                                                  *)

LEMMA StepVocabulary ==
  ASSUME NEW step \in StepNames
  PROVE  /\ Owner(ReverseOperation[step]) = ServiceOf[step]
         /\ ReverseOperation[step] \in CompensatingOperations
         /\ ServiceOf[step] \in Services
  BY DEF StepNames, Owner, ReverseOperation, ServiceOf, CompensatingOperations, Services

LEMMA UpToTable ==
  ASSUME NEW operation \in ForwardOperations
  PROVE  /\ operation \in UpTo[operation]
         /\ UpTo[operation] \subseteq ForwardOperations
         /\ operation # "FINALIZE_INVENTORY" =>
              UpTo[operation] \subseteq UpTo[Successor[operation]]
  <1> USE DEF UpTo, Successor, ForwardOperations
  <1>1. CASE operation = "CHARGE_PAYMENT"
    BY <1>1
  <1>2. CASE operation = "RESERVE_INVENTORY"
    BY <1>2
  <1>3. CASE operation = "CREATE_SHIPMENT"
    BY <1>3
  <1>4. CASE operation = "FINALIZE_INVENTORY"
    BY <1>4
  <1> QED
    BY <1>1, <1>2, <1>3, <1>4

(* An operation, its participant and its step.                              *)
LEMMA OwnerTable ==
  ASSUME NEW operation \in Operations
  PROVE  /\ Owner(operation) \in Services
         /\ operation \in CompensatingOperations => operation = UndoFor[Owner(operation)]
         /\ operation \in ForwardOperations \ {"FINALIZE_INVENTORY"} =>
              /\ operation = DoFor[Owner(operation)]
              /\ Owner(operation) = ServiceOf[StepFor[operation]]
         /\ operation = "FINALIZE_INVENTORY" => Owner(operation) = "inventory"
  BY DEF Operations, ForwardOperations, CompensatingOperations, Owner, UndoFor, DoFor, StepFor,
         ServiceOf, Services

LEMMA NextIsOperation ==
  ASSUME NEW s, ProgressTyped(s), NextOperation(s) # None
  PROVE  /\ NextOperation(s) \in Operations
         /\ s.status = "COMPENSATING" =>
              /\ NextUndo(s) \in StepNames
              /\ NextOperation(s) = ReverseOperation[NextUndo(s)]
  <1>1. CASE s.status # "COMPENSATING"
    BY <1>1 DEF NextOperation, Operations, ProgressTyped
  <1>2. CASE s.status = "COMPENSATING"
    <2>1. ~Undone(s) /\ NextOperation(s) = ReverseOperation[NextUndo(s)]
      BY <1>2 DEF NextOperation
    <2>2. UndoAfter[s.currentOperation] \in Seq(StepNames)
      BY Tables DEF ProgressTyped
    <2>3. /\ Len(s.compensatedSteps) \in Nat
          /\ Len(s.compensatedSteps) < Len(UndoAfter[s.currentOperation])
      BY <2>1, <2>2 DEF Undone, ProgressTyped
    <2>4. NextUndo(s) \in StepNames
      BY <2>2, <2>3, PrefixGrows DEF NextUndo
    <2> QED
      BY <2>1, <2>4, ReverseIsOperation DEF Operations
  <1> QED
    BY <1>1, <1>2

(* A row whose next command has been sent.                                  *)
LEMMA SentRowTrue ==
  ASSUME NEW s, ProgressTyped(s), s.status \in Active, NextOperation(s) # None,
         NEW sent, NEW said, RowTrue(s, sent, said),
         NEW t, t.status = s.status, t.currentOperation = s.currentOperation,
         t.completedSteps = s.completedSteps, t.compensatedSteps = s.compensatedSteps
  PROVE  RowTrue(t, sent \cup {NextOperation(s)}, said)
  <1>1. CASE s.status = "IN_PROGRESS"
    BY <1>1, UpToTable DEF RowTrue, NextOperation, ProgressTyped
  <1>2. CASE s.status = "COMPENSATING"
    <2>1. NextOperation(s) \notin ForwardOperations
      BY <1>2, NextIsOperation, StepVocabulary DEF CompensatingOperations, ForwardOperations
    <2> QED
      BY <1>2, <2>1 DEF RowTrue
  <1> QED
    BY <1>1, <1>2 DEF Active

(* What rests on what was told still does when more has been told.          *)
LEMMA RowStaysTrue ==
  ASSUME NEW s, ProgressTyped(s), NEW sent, NEW said, NEW more, RowTrue(s, sent, said),
         \A service \in Services : said[service] \subseteq more[service]
  PROVE  RowTrue(s, sent, more)
  <1>1. Owner(s.currentOperation) \in Services /\ "inventory" \in Services
    BY OwnerTable DEF ProgressTyped, Operations, Services
  <1>2. /\ \A i \in DOMAIN s.completedSteps : ServiceOf[s.completedSteps[i]] \in Services
        /\ \A i \in DOMAIN s.compensatedSteps : ServiceOf[s.compensatedSteps[i]] \in Services
    BY StepVocabulary, ElementOfSeq DEF ProgressTyped
  <1> QED
    BY <1>1, <1>2 DEF RowTrue

LEMMA HoldsNothing ==
  ASSUME NEW service \in Services, NEW far, NEW said, NEW sent,
         ServiceTrue(service, far, said, sent),
         "REFUSED" \in said \/ "UNDONE" \in said \/ DoFor[service] \notin sent
  PROVE  far \in {"none", "void", "undone"}
  BY DEF ServiceTrue, Effects

(* A COMPLETED order's step is in effect at each participant.               *)
LEMMA CompletedHoldsAll ==
  ASSUME NEW s, NEW sent, NEW said, NEW far,
         s.status = "COMPLETED", s.completedSteps = Steps,
         s.currentOperation \in ForwardOperations,
         RowTrue(s, sent, said),
         \A service \in Services : ServiceTrue(service, far[service], said[service], sent)
  PROVE  far["payment"] = "done" /\ far["inventory"] = "final" /\ far["shipping"] = "done"
  <1>1. \A i \in DOMAIN Steps : "DONE" \in said[ServiceOf[Steps[i]]]
    BY DEF RowTrue
  <1>2. /\ 1 \in DOMAIN Steps /\ Steps[1] = "PAYMENT"
        /\ 3 \in DOMAIN Steps /\ Steps[3] = "SHIPPING"
    BY DEF Steps
  <1>3. /\ "DONE" \in said["payment"] /\ "DONE" \in said["shipping"]
        /\ "FINAL" \in said["inventory"]
    BY <1>1, <1>2 DEF RowTrue, ServiceOf
  <1>4. sent \subseteq ForwardOperations
    BY UpToTable DEF RowTrue
  <1>5. \A service \in Services : UndoFor[service] \notin sent
    BY <1>4 DEF Services, UndoFor, ForwardOperations
  <1>6. /\ "payment" \in Services /\ "inventory" \in Services
        /\ "shipping" \in Services
    BY DEF Services
  <1> QED
    BY <1>3, <1>5, <1>6 DEF ServiceTrue

(* A FAILED order holds nothing at any participant: its step was refused,   *)
(* undone, or never asked for.                                              *)
LEMMA FailedHoldsNone ==
  ASSUME NEW s, NEW sent, NEW said, NEW far,
         s.status = "FAILED",
         s.currentOperation \in ForwardOperations \ {"FINALIZE_INVENTORY"},
         s.compensatedSteps = UndoAfter[s.currentOperation],
         RowTrue(s, sent, said),
         \A service \in Services : ServiceTrue(service, far[service], said[service], sent)
  PROVE  \A service \in Services : far[service] \in {"none", "void", "undone"}
  <1> SUFFICES ASSUME NEW service \in Services
               PROVE  far[service] \in {"none", "void", "undone"}
    OBVIOUS
  <1> DEFINE cur == s.currentOperation
  <1>1. /\ sent \cap ForwardOperations \subseteq UpTo[cur]
        /\ "REFUSED" \in said[Owner(cur)]
        /\ \A i \in DOMAIN UndoAfter[cur] : "UNDONE" \in said[ServiceOf[UndoAfter[cur][i]]]
    BY DEF RowTrue
  <1>2. cur \in ForwardOperations \ {"FINALIZE_INVENTORY"}
    OBVIOUS
  <1>3. ServiceTrue(service, far[service], said[service], sent)
    OBVIOUS
  <1> HIDE DEF cur
  <1>4. service \in {"payment", "inventory", "shipping"}
    BY DEF Services
  <1>5. CASE cur = "CHARGE_PAYMENT"
    <2>1. service = "payment" => "REFUSED" \in said[service]
      BY <1>1, <1>5 DEF Owner
    <2>2. service # "payment" => DoFor[service] \notin sent
      BY <1>1, <1>4, <1>5 DEF DoFor, UpTo, ForwardOperations
    <2> QED
      BY <1>3, <2>1, <2>2, HoldsNothing
  <1>6. CASE cur = "RESERVE_INVENTORY"
    <2>1. service = "payment" => "UNDONE" \in said[service]
      <3>1. 1 \in DOMAIN UndoAfter[cur] /\ UndoAfter[cur][1] = "PAYMENT"
        BY <1>6 DEF UndoAfter
      <3> QED
        BY <1>1, <3>1 DEF ServiceOf
    <2>2. service = "inventory" => "REFUSED" \in said[service]
      BY <1>1, <1>6 DEF Owner
    <2>3. service = "shipping" => DoFor[service] \notin sent
      BY <1>1, <1>6 DEF DoFor, UpTo, ForwardOperations
    <2> QED
      BY <1>3, <1>4, <2>1, <2>2, <2>3, HoldsNothing
  <1>7. CASE cur = "CREATE_SHIPMENT"
    <2>1. /\ 1 \in DOMAIN UndoAfter[cur] /\ UndoAfter[cur][1] = "INVENTORY"
          /\ 2 \in DOMAIN UndoAfter[cur] /\ UndoAfter[cur][2] = "PAYMENT"
      BY <1>7 DEF UndoAfter
    <2>2. service \in {"payment", "inventory"} => "UNDONE" \in said[service]
      BY <1>1, <2>1 DEF ServiceOf
    <2>3. service = "shipping" => "REFUSED" \in said[service]
      BY <1>1, <1>7 DEF Owner
    <2> QED
      BY <1>3, <1>4, <2>2, <2>3, HoldsNothing
  <1> QED
    BY <1>2, <1>5, <1>6, <1>7 DEF ForwardOperations

-----------------------------------------------------------------------------
(* The orchestrator.                                                       *)

(***************************************************************************)
(* The inductive invariant, order by order: s is the saga row, out the     *)
(* order's outbox, seen its inbox, late whether the response deadline has  *)
(* passed.  Beyond the properties it carries the facts they lean on: the   *)
(* counters, the last command's delivery, and what a pending command means.*)
(***************************************************************************)
Progress(s) ==
  /\ s.status \in {"ABSENT", "PENDING_PAYMENT"} =>
       /\ s.currentOperation = "CHARGE_PAYMENT"
       /\ s.completedSteps = <<>> /\ s.compensatedSteps = <<>>
       /\ ~s.inventoryFinalized
  /\ s.status \in Active => Consistent(s)
  /\ s.status = "COMPENSATING" => ~Undone(s)
  /\ s.status = "COMPLETED" =>
       s.completedSteps = Steps /\ s.compensatedSteps = <<>> /\ s.inventoryFinalized
  /\ s.status = "FAILED" =>
       /\ s.currentOperation # "FINALIZE_INVENTORY"
       /\ s.completedSteps = CompletedBefore[s.currentOperation]
       /\ s.compensatedSteps = UndoAfter[s.currentOperation]
       /\ ~s.inventoryFinalized

Counters(s) ==
  /\ s.brokerAttempts <= RetryLimit
  /\ s.status \in Active => s.recoveryAttempts < s.brokerAttempts
  /\ s.status \in {"ABSENT", "PENDING_PAYMENT"} =>
       s.brokerAttempts = 0 /\ s.recoveryAttempts = 0
  /\ s.interventionReason # None =>
       /\ s.status \in Active
       /\ s.brokerAttempts = RetryLimit
       /\ s.interventionReason \in {"RECOVERY_RETRIES_EXHAUSTED", "COMMAND_RETRIES_EXHAUSTED"}
  /\ s.leaseOwner # None => s.status \in Active /\ s.interventionReason = None

Pending(s, out, seen, late) ==
  LET n == s.pendingMessageId
  IN /\ seen \subseteq 1..Len(out)
     /\ s.status \in Active /\ s.interventionReason = None => n # 0
     /\ n # 0 =>
          /\ s.status \in Active
          /\ n = Len(out)
          /\ n \notin seen
          /\ out[n].operation = NextOperation(s)
     /\ n # 0 /\ s.interventionReason # None =>
          late /\ out[n].delivery = "published"

Delivered(s, out) ==
  \A n \in 1..Len(out) :
    n < Len(out) \/ s.pendingMessageId = 0 => out[n].delivery # "queued"

OrderInv(s, out, seen, late) ==
  Progress(s) /\ Counters(s) /\ Pending(s, out, seen, late) /\ Delivered(s, out)

IInv ==
  /\ TypeOK
  /\ \A o \in Orders : OrderInv(saga[o], outbox[o], inbox[o], o \in overdue)

LEMMA InitIInv == Init => IInv
  <1> SUFFICES ASSUME Init PROVE IInv
    OBVIOUS
  <1> USE ConstantsAssumption
  <1>1. TypeOK
    BY DEF Init, TypeOK, NewRow, Row, Statuses, Active, Terminal, PaymentMethods,
           ForwardOperations, None
  <1>2. ASSUME NEW o \in Orders
        PROVE  OrderInv(saga[o], outbox[o], inbox[o], o \in overdue)
    BY DEF Init, OrderInv, NewRow, Progress, Counters, Pending, Delivered, Active, None
  <1> QED
    BY <1>1, <1>2 DEF IInv

-----------------------------------------------------------------------------
(* A row dispatch() may be given: active, its progress consistent, attempts *)
(* left, and no operator involved.                                          *)
Ready(s) ==
  /\ s \in Row
  /\ s.status \in Active
  /\ Consistent(s)
  /\ s.interventionReason = None
  /\ s.brokerAttempts < RetryLimit
  /\ s.recoveryAttempts <= s.brokerAttempts

LEMMA NextOperationType ==
  ASSUME NEW s, Ready(s), NextOperation(s) # None
  PROVE  /\ NextOperation(s) \in Operations
         /\ s.status = "COMPENSATING" => ~Undone(s)
  <1>1. CASE s.status # "COMPENSATING"
    BY <1>1 DEF Ready, Row, NextOperation, Operations
  <1>2. CASE s.status = "COMPENSATING"
    <2>1. ~Undone(s)
      BY <1>2 DEF NextOperation
    <2>2. UndoAfter[s.currentOperation] \in Seq(StepNames)
      BY Tables DEF Ready, Row
    <2>3. Len(s.compensatedSteps) \in Nat
          /\ Len(s.compensatedSteps) < Len(UndoAfter[s.currentOperation])
      BY <2>1, <2>2 DEF Undone, Ready, Row
    <2>4. NextUndo(s) \in StepNames
      BY <2>2, <2>3, PrefixGrows DEF NextUndo
    <2> QED
      BY <1>2, <2>1, <2>4, ReverseIsOperation DEF NextOperation, Operations
  <1> QED
    BY <1>1, <1>2

(* The row and the outbox after a command was enqueued.                     *)
LEMMA SentRow ==
  ASSUME NEW s, Ready(s), NextOperation(s) # None,
         NEW out \in Seq(Command), NEW seen, seen \subseteq 1..Len(out),
         \A n \in 1..Len(out) : out[n].delivery # "queued",
         NEW t, t = [s EXCEPT !.pendingMessageId = Len(out) + 1,
                              !.brokerAttempts = @ + 1,
                              !.leaseOwner = None],
         NEW out2, out2 = Append(out, [operation |-> NextOperation(s), delivery |-> "queued"])
  PROVE  /\ t \in Row
         /\ out2 \in Seq(Command)
         /\ OrderInv(t, out2, seen, FALSE)
  <1> USE ConstantsAssumption
  <1> DEFINE c == [operation |-> NextOperation(s), delivery |-> "queued"]
  <1>1. c \in Command
    BY NextOperationType DEF Command
  <1>2. /\ Len(out) \in Nat
        /\ out2 \in Seq(Command) /\ Len(out2) = Len(out) + 1
        /\ \A n \in 1..Len(out) : out2[n] = out[n]
        /\ out2[Len(out) + 1] = c
    <2> HIDE DEF c
    <2> QED
      BY <1>1 DEF c
  <1>3. t \in Row
    <2>1. Len(out) + 1 \in Nat /\ s.brokerAttempts + 1 \in Nat
      BY <1>2 DEF Ready, Row
    <2> QED
      BY <2>1 DEF Ready, Row
  <1>4. /\ t.status = s.status /\ t.currentOperation = s.currentOperation
        /\ t.completedSteps = s.completedSteps /\ t.compensatedSteps = s.compensatedSteps
        /\ t.inventoryFinalized = s.inventoryFinalized
        /\ t.interventionReason = None /\ t.leaseOwner = None
        /\ t.pendingMessageId = Len(out) + 1
        /\ t.brokerAttempts = s.brokerAttempts + 1
        /\ t.recoveryAttempts = s.recoveryAttempts
    BY DEF Ready, Row
  <1>5. Progress(t)
    BY <1>4, NextOperationType
       DEF Progress, Ready, Row, Active, Consistent, ConsistentForward,
           ConsistentCompensation, Undone
  <1>6. Counters(t)
    BY <1>4 DEF Counters, Ready, Row, Active
  <1>7. NextOperation(t) = NextOperation(s)
    BY <1>4 DEF NextOperation, Undone, NextUndo
  <1>8. Pending(t, out2, seen, FALSE)
    BY <1>2, <1>4, <1>7 DEF Pending, Ready
  <1>9. Delivered(t, out2)
    BY <1>2, <1>4 DEF Delivered
  <1> QED
    BY <1>2, <1>3, <1>5, <1>6, <1>8, <1>9 DEF OrderInv

(* The row of a saga whose compensation is complete.                        *)
LEMMA ClosedRow ==
  ASSUME NEW s, Ready(s), NextOperation(s) = None,
         NEW out \in Seq(Command), NEW seen, seen \subseteq 1..Len(out),
         \A n \in 1..Len(out) : out[n].delivery # "queued",
         NEW t, t = [s EXCEPT !.status = "FAILED", !.pendingMessageId = 0, !.leaseOwner = None]
  PROVE  t \in Row /\ OrderInv(t, out, seen, FALSE)
  <1> USE ConstantsAssumption
  <1>1. /\ t.status = "FAILED" /\ t.currentOperation = s.currentOperation
        /\ t.completedSteps = s.completedSteps /\ t.compensatedSteps = s.compensatedSteps
        /\ t.inventoryFinalized = s.inventoryFinalized
        /\ t.interventionReason = None /\ t.leaseOwner = None
        /\ t.pendingMessageId = 0
        /\ t.brokerAttempts = s.brokerAttempts
    BY DEF Ready, Row
  <1>2. t \in Row
    BY DEF Ready, Row, Statuses, Terminal
  <1>3. s.status = "COMPENSATING" /\ Undone(s)
    <2>1. s.currentOperation # None
      BY DEF Ready, Row, ForwardOperations, None
    <2>2. ASSUME s.status = "COMPENSATING", ~Undone(s) PROVE FALSE
      <3>1. NextUndo(s) \in StepNames
        <4>1. UndoAfter[s.currentOperation] \in Seq(StepNames)
          BY Tables DEF Ready, Row
        <4>2. Len(s.compensatedSteps) \in Nat
              /\ Len(s.compensatedSteps) < Len(UndoAfter[s.currentOperation])
          BY <2>2, <4>1 DEF Undone, Ready, Row
        <4> QED
          BY <4>1, <4>2, PrefixGrows DEF NextUndo
      <3>2. ReverseOperation[NextUndo(s)] # None
        BY <3>1, ReverseIsOperation DEF CompensatingOperations, None
      <3> QED
        BY <2>2, <3>2 DEF NextOperation
    <2> QED
      BY <2>1, <2>2 DEF NextOperation
  <1>4. s.compensatedSteps = UndoAfter[s.currentOperation]
    <2>1. UndoAfter[s.currentOperation] \in Seq(StepNames)
      BY Tables DEF Ready, Row
    <2>2. Len(s.compensatedSteps) = Len(UndoAfter[s.currentOperation])
      BY <1>3, <2>1 DEF Undone, Ready, Row, Consistent, ConsistentCompensation
    <2> QED
      BY <1>3, <2>1, <2>2, SubSeqFull DEF Ready, Consistent, ConsistentCompensation
  <1>5. s.currentOperation # "FINALIZE_INVENTORY"
    BY <1>3, Tables DEF Ready, Row, Consistent, ConsistentCompensation
  <1>6. Progress(t)
    BY <1>1, <1>3, <1>4, <1>5 DEF Progress, Active, Ready, Consistent, ConsistentCompensation
  <1>7. Counters(t)
    BY <1>1 DEF Counters, Active, Ready, Row
  <1>8. Pending(t, out, seen, FALSE)
    BY <1>1 DEF Pending, Active
  <1>9. Delivered(t, out)
    BY DEF Delivered
  <1> QED
    BY <1>2, <1>6, <1>7, <1>8, <1>9 DEF OrderInv

-----------------------------------------------------------------------------
(* Save and Dispatch change the row and outbox of one order.                *)

OrdersOK ==
  /\ saga \in [Orders -> Row]
  /\ outbox \in [Orders -> Seq(Command)]
  /\ due \subseteq Orders
  /\ overdue \subseteq Orders
  /\ lapsed \subseteq Orders
  /\ \A p \in Orders : OrderInv(saga[p], outbox[p], inbox[p], p \in overdue)

LEMMA SavePreserves ==
  ASSUME OrdersOK, NEW o \in Orders, NEW s \in Row, Save(o, s),
         due' \subseteq Orders,
         \A p \in Orders \ {o} : inbox'[p] = inbox[p],
         s.pendingMessageId = 0 => OrderInv(s, outbox[o], inbox'[o], FALSE),
         s.pendingMessageId # 0 => OrderInv(s, outbox[o], inbox'[o], o \in overdue)
  PROVE  OrdersOK'
  <1>1. saga' = [saga EXCEPT ![o] = s]
        /\ outbox' = outbox
        /\ overdue' = (IF s.pendingMessageId = 0 THEN overdue \ {o} ELSE overdue)
        /\ lapsed' = lapsed \ {o}
    BY DEF Save
  <1>2. saga' \in [Orders -> Row] /\ outbox' \in [Orders -> Seq(Command)]
        /\ overdue' \subseteq Orders /\ lapsed' \subseteq Orders
    BY <1>1 DEF OrdersOK
  <1>3. ASSUME NEW p \in Orders
        PROVE  OrderInv(saga'[p], outbox'[p], inbox'[p], p \in overdue')
    <2>1. CASE p = o
      <3>1. saga'[p] = s /\ outbox'[p] = outbox[o] /\ inbox'[p] = inbox'[o]
        BY <1>1, <2>1 DEF OrdersOK
      <3>2. CASE s.pendingMessageId = 0
        <4>1. (p \in overdue') = FALSE
          BY <1>1, <2>1, <3>2
        <4> QED
          BY <3>1, <3>2, <4>1
      <3>3. CASE s.pendingMessageId # 0
        <4>1. (p \in overdue') = (o \in overdue)
          BY <1>1, <2>1, <3>3
        <4> QED
          BY <3>1, <3>3, <4>1
      <3> QED
        BY <3>2, <3>3
    <2>2. CASE p # o
      <3>1. saga'[p] = saga[p] /\ outbox'[p] = outbox[p] /\ inbox'[p] = inbox[p]
        BY <1>1, <2>2 DEF OrdersOK
      <3>2. (p \in overdue') = (p \in overdue)
        BY <1>1, <2>2
      <3> QED
        BY <3>1, <3>2 DEF OrdersOK
    <2> QED
      BY <2>1, <2>2
  <1> QED
    BY <1>2, <1>3 DEF OrdersOK

LEMMA DispatchPreserves ==
  ASSUME OrdersOK, NEW o \in Orders, NEW s, Ready(s), Dispatch(o, s),
         \A n \in 1..Len(outbox[o]) : outbox[o][n].delivery # "queued",
         \A p \in Orders \ {o} : inbox'[p] = inbox[p],
         inbox'[o] \subseteq 1..Len(outbox[o])
  PROVE  OrdersOK'
  <1> DEFINE out == outbox[o]
  <1>1. out \in Seq(Command)
    BY DEF OrdersOK
  <1>2. CASE NextOperation(s) = None
    <2> DEFINE t == [s EXCEPT !.status = "FAILED", !.pendingMessageId = 0, !.leaseOwner = None]
    <2>1. Save(o, t) /\ due' = due
      BY <1>2 DEF Dispatch
    <2>2. t \in Row /\ OrderInv(t, out, inbox'[o], FALSE)
      BY <1>1, <1>2, ClosedRow
    <2>3. t.pendingMessageId = 0
      BY DEF Ready, Row
    <2> HIDE DEF t
    <2>5. due' \subseteq Orders
      BY <2>1 DEF OrdersOK
    <2> QED
      BY <2>1, <2>2, <2>3, <2>5, SavePreserves
  <1>3. CASE NextOperation(s) # None
    <2> DEFINE t == [s EXCEPT !.pendingMessageId = Len(out) + 1,
                              !.brokerAttempts = @ + 1,
                              !.leaseOwner = None]
               out2 == Append(out, [operation |-> NextOperation(s), delivery |-> "queued"])
    <2>1. /\ saga' = [saga EXCEPT ![o] = t]
          /\ outbox' = [outbox EXCEPT ![o] = out2]
          /\ due' = due \ {o}
          /\ overdue' = overdue \ {o}
          /\ lapsed' = lapsed \ {o}
      BY <1>3 DEF Dispatch, OrdersOK
    <2>2. t \in Row /\ out2 \in Seq(Command) /\ OrderInv(t, out2, inbox'[o], FALSE)
      <3> HIDE DEF t, out2
      <3> QED
        BY <1>1, <1>3, SentRow DEF t, out2
    <2> HIDE DEF t, out2
    <2>3. /\ saga' \in [Orders -> Row] /\ outbox' \in [Orders -> Seq(Command)]
          /\ due' \subseteq Orders /\ overdue' \subseteq Orders /\ lapsed' \subseteq Orders
      BY <2>1, <2>2 DEF OrdersOK
    <2>4. ASSUME NEW p \in Orders
          PROVE  OrderInv(saga'[p], outbox'[p], inbox'[p], p \in overdue')
      <3>1. CASE p = o
        <4>1. saga'[p] = t /\ outbox'[p] = out2 /\ inbox'[p] = inbox'[o]
          BY <2>1, <3>1 DEF OrdersOK
        <4>2. (p \in overdue') = FALSE
          BY <2>1, <3>1
        <4> QED
          BY <2>2, <4>1, <4>2
      <3>2. CASE p # o
        <4>1. saga'[p] = saga[p] /\ outbox'[p] = outbox[p] /\ inbox'[p] = inbox[p]
          BY <2>1, <3>2 DEF OrdersOK
        <4>2. (p \in overdue') = (p \in overdue)
          BY <2>1, <3>2
        <4> QED
          BY <4>1, <4>2 DEF OrdersOK
      <3> QED
        BY <3>1, <3>2
    <2> QED
      BY <2>3, <2>4 DEF OrdersOK
  <1> QED
    BY <1>2, <1>3

-----------------------------------------------------------------------------
(* Requests.                                                               *)

LEMMA AcceptPreserves ==
  ASSUME OrdersOK, NEW o \in Orders, NEW method \in Methods, Accept(o, method)
  PROVE  OrdersOK'
  <1> USE ConstantsAssumption
  <1>1. OrderInv(saga[o], outbox[o], inbox[o], o \in overdue)
        /\ saga[o].status = "ABSENT" /\ saga[o] \in Row /\ outbox[o] \in Seq(Command)
    BY DEF OrdersOK, Accept
  <1>2. saga[o].pendingMessageId = 0
    BY <1>1 DEF OrderInv, Pending, Active
  <1>3. inbox[o] \subseteq 1..Len(outbox[o])
        /\ \A n \in 1..Len(outbox[o]) : outbox[o][n].delivery # "queued"
    BY <1>1, <1>2 DEF OrderInv, Pending, Delivered
  <1>4. inbox' = inbox
    BY DEF Accept
  <1>5. CASE method = "BANK_TRANSFER"
    <2> DEFINE t == NewRow("PENDING_PAYMENT", method)
    <2>1. saga' = [saga EXCEPT ![o] = t] /\ outbox' = outbox /\ due' = due
          /\ overdue' = overdue /\ lapsed' = lapsed
      BY <1>5 DEF Accept, clocks
    <2>2. t \in Row
      BY DEF NewRow, Row, Statuses, ForwardOperations
    <2>3. OrderInv(t, outbox[o], inbox[o], o \in overdue)
      BY <1>3 DEF NewRow, OrderInv, Progress, Counters, Pending, Delivered, Active
    <2> HIDE DEF t
    <2>4. ASSUME NEW p \in Orders
          PROVE  OrderInv(saga'[p], outbox'[p], inbox'[p], p \in overdue')
      <3>1. CASE p = o
        <4>1. saga'[p] = t
          BY <2>1, <3>1 DEF OrdersOK
        <4> QED
          BY <2>1, <2>3, <3>1, <4>1, <1>4
      <3>2. CASE p # o
        <4>1. saga'[p] = saga[p]
          BY <2>1, <3>2 DEF OrdersOK
        <4> QED
          BY <2>1, <3>2, <4>1, <1>4 DEF OrdersOK
      <3> QED
        BY <3>1, <3>2
    <2> QED
      BY <2>1, <2>2, <2>4 DEF OrdersOK
  <1>6. CASE method # "BANK_TRANSFER"
    <2> DEFINE s == NewRow("IN_PROGRESS", method)
    <2>1. Dispatch(o, s)
      BY <1>6 DEF Accept
    <2>2. Ready(s)
      BY DEF NewRow, Ready, Row, Statuses, Active, ForwardOperations, Consistent,
             ConsistentForward, CompletedBefore
    <2> HIDE DEF s
    <2> QED
      BY <1>3, <1>4, <2>1, <2>2, DispatchPreserves
  <1> QED
    BY <1>5, <1>6

LEMMA ConfirmPaymentPreserves ==
  ASSUME OrdersOK, NEW o \in Orders, ConfirmPayment(o)
  PROVE  OrdersOK'
  <1> USE ConstantsAssumption
  <1> DEFINE s == [saga[o] EXCEPT !.status = "IN_PROGRESS"]
  <1>1. OrderInv(saga[o], outbox[o], inbox[o], o \in overdue)
        /\ saga[o].status = "PENDING_PAYMENT" /\ saga[o] \in Row
    BY DEF OrdersOK, ConfirmPayment
  <1>2. saga[o].pendingMessageId = 0
    BY <1>1 DEF OrderInv, Pending, Active
  <1>3. inbox[o] \subseteq 1..Len(outbox[o])
        /\ \A n \in 1..Len(outbox[o]) : outbox[o][n].delivery # "queued"
    BY <1>1, <1>2 DEF OrderInv, Pending, Delivered
  <1>4. inbox' = inbox /\ Dispatch(o, s)
    BY DEF ConfirmPayment
  <1>5. Ready(s)
    BY <1>1 DEF OrderInv, Progress, Counters, Ready, Row, Statuses, Active, Consistent,
                ConsistentForward, CompletedBefore
  <1> HIDE DEF s
  <1> QED
    BY <1>3, <1>4, <1>5, DispatchPreserves

LEMMA ResumePreserves ==
  ASSUME OrdersOK, NEW o \in Orders, Resume(o)
  PROVE  OrdersOK'
  <1> USE ConstantsAssumption
  <1> DEFINE s == [FreshCounters(saga[o]) EXCEPT !.interventionReason = None]
             n == saga[o].pendingMessageId
  <1>1. OrderInv(saga[o], outbox[o], inbox[o], o \in overdue)
        /\ saga[o] \in Row /\ outbox[o] \in Seq(Command)
    BY DEF OrdersOK
  <1>2. /\ saga[o].status \notin {"ABSENT"} \cup Terminal
        /\ n = 0 \/ saga[o].interventionReason # None
        /\ Consistent(saga[o])
        /\ inbox' = inbox /\ Dispatch(o, s)
    BY DEF Resume
  <1>3. saga[o].status \in Active
    BY <1>2 DEF Consistent, ConsistentForward, Active
  <1>4. inbox[o] \subseteq 1..Len(outbox[o])
        /\ \A m \in 1..Len(outbox[o]) : outbox[o][m].delivery # "queued"
    <2>1. CASE n = 0
      BY <1>1, <2>1 DEF OrderInv, Pending, Delivered
    <2>2. CASE n # 0
      <3>1. n = Len(outbox[o]) /\ outbox[o][n].delivery = "published"
            /\ inbox[o] \subseteq 1..Len(outbox[o])
        BY <1>1, <1>2, <2>2 DEF OrderInv, Pending
      <3>2. \A m \in 1..Len(outbox[o]) : m < Len(outbox[o]) \/ m = Len(outbox[o])
        BY <1>1
      <3> QED
        BY <1>1, <3>1, <3>2 DEF OrderInv, Delivered
    <2> QED
      BY <2>1, <2>2
  <1>5. Ready(s)
    <2>1. /\ s.status = saga[o].status /\ s.currentOperation = saga[o].currentOperation
          /\ s.completedSteps = saga[o].completedSteps
          /\ s.compensatedSteps = saga[o].compensatedSteps
          /\ s.inventoryFinalized = saga[o].inventoryFinalized
          /\ s.interventionReason = None
          /\ s.brokerAttempts = 0 /\ s.recoveryAttempts = 0 /\ s \in Row
      BY <1>1 DEF FreshCounters, Row
    <2>2. Consistent(s)
      BY <1>2, <2>1 DEF Consistent, ConsistentForward, ConsistentCompensation
    <2> QED
      BY <1>3, <2>1, <2>2 DEF Ready
  <1> HIDE DEF s
  <1> QED
    BY <1>2, <1>4, <1>5, DispatchPreserves

-----------------------------------------------------------------------------
(* Results.                                                                *)

(* What is known of an order whose awaited result arrives.                  *)
LEMMA AwaitedFacts ==
  ASSUME OrdersOK, inbox \in [Orders -> SUBSET Nat],
         NEW o \in Orders, NEW n, Arrives(o, n), Awaited(o, n)
  PROVE  /\ saga[o] \in Row
         /\ saga[o].status \in Active
         /\ Consistent(saga[o])
         /\ saga[o].status = "COMPENSATING" => ~Undone(saga[o])
         /\ saga[o].brokerAttempts <= RetryLimit
         /\ saga[o].recoveryAttempts < saga[o].brokerAttempts
         /\ outbox[o] \in Seq(Command)
         /\ outbox[o][n].operation = NextOperation(saga[o])
         /\ \A m \in 1..Len(outbox[o]) : outbox[o][m].delivery # "queued"
         /\ inbox'[o] \subseteq 1..Len(outbox[o])
         /\ \A p \in Orders \ {o} : inbox'[p] = inbox[p]
  <1>1. OrderInv(saga[o], outbox[o], inbox[o], o \in overdue)
        /\ saga[o] \in Row /\ outbox[o] \in Seq(Command)
    BY DEF OrdersOK
  <1>2. n \in 1..Len(outbox[o]) /\ outbox[o][n].delivery # "queued"
    BY <1>1, LenProperties DEF Arrives
  <1>3. saga[o].pendingMessageId = n /\ n # 0
    BY <1>1, <1>2 DEF Awaited
  <1>4. saga[o].status \in Active /\ n = Len(outbox[o])
        /\ outbox[o][n].operation = NextOperation(saga[o])
        /\ inbox[o] \subseteq 1..Len(outbox[o])
    BY <1>1, <1>3 DEF OrderInv, Pending
  <1>5. \A m \in 1..Len(outbox[o]) : m < Len(outbox[o]) \/ m = n
    BY <1>1, <1>4
  <1>6. \A m \in 1..Len(outbox[o]) : outbox[o][m].delivery # "queued"
    BY <1>1, <1>2, <1>5 DEF OrderInv, Delivered
  <1>7. inbox'[o] \subseteq 1..Len(outbox[o]) /\ \A p \in Orders \ {o} : inbox'[p] = inbox[p]
    BY <1>2, <1>4 DEF Arrives
  <1> QED
    BY <1>1, <1>4, <1>6, <1>7 DEF OrderInv, Progress, Counters, Active

(* The row after `common` and, when the attempts start anew, the counters.  *)
LEMMA ClearedRow ==
  ASSUME NEW s \in Row
  PROVE  /\ Cleared(s) \in Row
         /\ Cleared(s).status = s.status
         /\ Cleared(s).currentOperation = s.currentOperation
         /\ Cleared(s).completedSteps = s.completedSteps
         /\ Cleared(s).compensatedSteps = s.compensatedSteps
         /\ Cleared(s).inventoryFinalized = s.inventoryFinalized
         /\ Cleared(s).pendingMessageId = 0
         /\ Cleared(s).interventionReason = None
         /\ Cleared(s).leaseOwner = None
         /\ Cleared(s).brokerAttempts = s.brokerAttempts
         /\ Cleared(s).recoveryAttempts = s.recoveryAttempts
  BY DEF Cleared, Row

LEMMA FreshRow ==
  ASSUME NEW s \in Row
  PROVE  /\ FreshCounters(Cleared(s)) \in Row
         /\ FreshCounters(Cleared(s)).status = s.status
         /\ FreshCounters(Cleared(s)).currentOperation = s.currentOperation
         /\ FreshCounters(Cleared(s)).completedSteps = s.completedSteps
         /\ FreshCounters(Cleared(s)).compensatedSteps = s.compensatedSteps
         /\ FreshCounters(Cleared(s)).inventoryFinalized = s.inventoryFinalized
         /\ FreshCounters(Cleared(s)).pendingMessageId = 0
         /\ FreshCounters(Cleared(s)).interventionReason = None
         /\ FreshCounters(Cleared(s)).leaseOwner = None
         /\ FreshCounters(Cleared(s)).brokerAttempts = 0
         /\ FreshCounters(Cleared(s)).recoveryAttempts = 0
  BY DEF FreshCounters, Cleared, Row

LEMMA ReceiveStalePreserves ==
  ASSUME OrdersOK, inbox \in [Orders -> SUBSET Nat],
         NEW o \in Orders, NEW n, ReceiveStale(o, n)
  PROVE  OrdersOK'
  <1>1. /\ saga' = saga /\ outbox' = outbox /\ due' = due /\ overdue' = overdue
        /\ lapsed' = lapsed
        /\ n # saga[o].pendingMessageId \/ saga[o].status \in Terminal
        /\ inbox' = [inbox EXCEPT ![o] = @ \cup {n}]
    BY DEF ReceiveStale, Arrives, Awaited, clocks
  <1>2. n \in 1..Len(outbox[o])
    BY LenProperties DEF OrdersOK, ReceiveStale, Arrives
  <1>3. ASSUME NEW p \in Orders
        PROVE  OrderInv(saga[p], outbox[p], inbox'[p], p \in overdue)
    <2>1. OrderInv(saga[p], outbox[p], inbox[p], p \in overdue)
      BY DEF OrdersOK
    <2>2. CASE p = o
      <3>1. inbox'[p] = inbox[p] \cup {n}
        BY <1>1, <2>2
      <3>2. saga[p].pendingMessageId # 0 => saga[p].pendingMessageId # n
        BY <1>1, <2>1, <2>2 DEF OrderInv, Pending, Active, Terminal
      <3> QED
        BY <1>2, <2>1, <2>2, <3>1, <3>2 DEF OrderInv, Pending
    <2>3. CASE p # o
      BY <1>1, <2>1, <2>3
    <2> QED
      BY <2>2, <2>3
  <1> QED
    BY <1>1, <1>3 DEF OrdersOK

LEMMA ReceiveCompensatedPreserves ==
  ASSUME OrdersOK, inbox \in [Orders -> SUBSET Nat],
         NEW o \in Orders, NEW n, ReceiveCompensated(o, n)
  PROVE  OrdersOK'
  <1> USE ConstantsAssumption
  <1> DEFINE u == UndoAfter[saga[o].currentOperation]
             k == Len(saga[o].compensatedSteps)
             f == FreshCounters(Cleared(saga[o]))
             s == [f EXCEPT !.compensatedSteps = Append(@, NextUndo(saga[o]))]
  <1>1. Arrives(o, n) /\ Awaited(o, n) /\ saga[o].status = "COMPENSATING" /\ Dispatch(o, s)
    BY DEF ReceiveCompensated
  <1>2. saga[o] \in Row /\ ConsistentCompensation(saga[o]) /\ ~Undone(saga[o])
    BY <1>1, AwaitedFacts DEF Consistent
  <1>3. u \in Seq(StepNames) /\ k \in Nat /\ k < Len(u)
    BY <1>2, Tables DEF Undone, Row
  <1>4. /\ Append(saga[o].compensatedSteps, NextUndo(saga[o])) = SubSeq(u, 1, k + 1)
        /\ Len(SubSeq(u, 1, k + 1)) = k + 1
        /\ NextUndo(saga[o]) \in StepNames
    <2>1. saga[o].compensatedSteps = SubSeq(u, 1, k)
      BY <1>2 DEF ConsistentCompensation
    <2> QED
      BY <1>3, <2>1, PrefixGrows DEF NextUndo
  <1>5. /\ s \in Row
        /\ s.status = "COMPENSATING" /\ s.currentOperation = saga[o].currentOperation
        /\ s.completedSteps = saga[o].completedSteps
        /\ s.compensatedSteps = SubSeq(u, 1, k + 1)
        /\ s.inventoryFinalized = saga[o].inventoryFinalized
        /\ s.interventionReason = None /\ s.brokerAttempts = 0 /\ s.recoveryAttempts = 0
    <2>1. Append(saga[o].compensatedSteps, NextUndo(saga[o])) \in Seq(StepNames)
      <3>1. saga[o].compensatedSteps \in Seq(StepNames)
        BY <1>2 DEF Row
      <3>2. NextUndo(saga[o]) \in StepNames
        BY <1>4
      <3> HIDE DEF f, s, u, k
      <3> QED
        BY <3>1, <3>2, AppendProperties
    <2> HIDE DEF f
    <2>2. f \in Row /\ f.status = saga[o].status /\ f.currentOperation = saga[o].currentOperation
          /\ f.completedSteps = saga[o].completedSteps
          /\ f.compensatedSteps = saga[o].compensatedSteps
          /\ f.inventoryFinalized = saga[o].inventoryFinalized
          /\ f.interventionReason = None /\ f.brokerAttempts = 0 /\ f.recoveryAttempts = 0
      BY <1>2, FreshRow DEF f
    <2> QED
      BY <1>1, <1>4, <2>1, <2>2 DEF Row
  <1> HIDE DEF f, s
  <1>6. Consistent(s)
    BY <1>2, <1>3, <1>4, <1>5 DEF Consistent, ConsistentCompensation
  <1>7. Ready(s)
    BY <1>5, <1>6 DEF Ready, Active
  <1> QED
    BY <1>1, <1>7, AwaitedFacts, DispatchPreserves

LEMMA ReceiveRetryablePreserves ==
  ASSUME OrdersOK, inbox \in [Orders -> SUBSET Nat],
         NEW o \in Orders, NEW n, ReceiveRetryable(o, n)
  PROVE  OrdersOK'
  <1> USE ConstantsAssumption
  <1> DEFINE s == Cleared(saga[o])
  <1>1. Arrives(o, n) /\ Awaited(o, n)
    BY DEF ReceiveRetryable
  <1>2. /\ saga[o] \in Row /\ saga[o].status \in Active /\ Consistent(saga[o])
        /\ saga[o].brokerAttempts <= RetryLimit
        /\ saga[o].recoveryAttempts < saga[o].brokerAttempts
        /\ saga[o].status = "COMPENSATING" => ~Undone(saga[o])
    BY <1>1, AwaitedFacts
  <1>3. /\ s \in Row
        /\ s.status = saga[o].status /\ s.currentOperation = saga[o].currentOperation
        /\ s.completedSteps = saga[o].completedSteps
        /\ s.compensatedSteps = saga[o].compensatedSteps
        /\ s.inventoryFinalized = saga[o].inventoryFinalized
        /\ s.pendingMessageId = 0 /\ s.interventionReason = None
        /\ s.brokerAttempts = saga[o].brokerAttempts
        /\ s.recoveryAttempts = saga[o].recoveryAttempts
    BY <1>2, ClearedRow
  <1> HIDE DEF s
  <1>4. Consistent(s)
    BY <1>2, <1>3 DEF Consistent, ConsistentForward, ConsistentCompensation
  <1>5. CASE saga[o].brokerAttempts >= RetryLimit
    <2> DEFINE t == [s EXCEPT !.interventionReason = "COMMAND_RETRIES_EXHAUSTED",
                              !.leaseOwner = None]
    <2>1. Save(o, t) /\ due' = due
      BY <1>5 DEF ReceiveRetryable, Intervene, s
    <2>2. /\ t \in Row
          /\ t.status = s.status /\ t.currentOperation = s.currentOperation
          /\ t.completedSteps = s.completedSteps /\ t.compensatedSteps = s.compensatedSteps
          /\ t.inventoryFinalized = s.inventoryFinalized
          /\ t.pendingMessageId = 0 /\ t.leaseOwner = None
          /\ t.interventionReason = "COMMAND_RETRIES_EXHAUSTED"
          /\ t.brokerAttempts = s.brokerAttempts /\ t.recoveryAttempts = s.recoveryAttempts
      BY <1>3 DEF Row, Reasons
    <2>3. Progress(t)
      BY <1>2, <1>3, <1>4, <2>2
         DEF Progress, Active, Consistent, ConsistentForward, ConsistentCompensation, Undone
    <2>4. saga[o].brokerAttempts = RetryLimit
      BY <1>2, <1>5 DEF Row
    <2>5. Counters(t)
      BY <1>2, <1>3, <2>2, <2>4 DEF Counters, Active
    <2>6. OrderInv(t, outbox[o], inbox'[o], FALSE)
      BY <1>1, <2>2, <2>3, <2>5, AwaitedFacts DEF OrderInv, Pending, Delivered, None
    <2>7. due' \subseteq Orders
      BY <2>1 DEF OrdersOK
    <2> HIDE DEF t
    <2> QED
      BY <1>1, <2>1, <2>2, <2>6, <2>7, AwaitedFacts, SavePreserves
  <1>6. CASE ~(saga[o].brokerAttempts >= RetryLimit)
    <2>1. Dispatch(o, s)
      BY <1>6 DEF ReceiveRetryable, s
    <2>2. Ready(s)
      BY <1>2, <1>3, <1>4, <1>6 DEF Ready, Row
    <2> QED
      BY <1>1, <2>1, <2>2, AwaitedFacts, DispatchPreserves
  <1> QED
    BY <1>5, <1>6

(* What a result of the forward direction finds: the row before, and the     *)
(* row f its branch starts from.                                            *)
LEMMA ForwardFacts ==
  ASSUME OrdersOK, inbox \in [Orders -> SUBSET Nat],
         NEW o \in Orders, NEW n, Arrives(o, n), Awaited(o, n),
         saga[o].status = "IN_PROGRESS",
         NEW f, f = FreshCounters(Cleared(saga[o]))
  PROVE  /\ outbox[o][n].operation = f.currentOperation
         /\ f \in Row
         /\ f.status = "IN_PROGRESS"
         /\ f.completedSteps = CompletedBefore[f.currentOperation]
         /\ f.compensatedSteps = <<>>
         /\ ~f.inventoryFinalized
         /\ f.pendingMessageId = 0
         /\ f.interventionReason = None
         /\ f.leaseOwner = None
         /\ f.brokerAttempts = 0
         /\ f.recoveryAttempts = 0
  <1>1. /\ saga[o] \in Row /\ Consistent(saga[o])
        /\ outbox[o][n].operation = NextOperation(saga[o])
    BY AwaitedFacts
  <1>2. ConsistentForward(saga[o]) /\ NextOperation(saga[o]) = saga[o].currentOperation
    BY <1>1 DEF Consistent, NextOperation
  <1> QED
    BY <1>1, <1>2, FreshRow DEF ConsistentForward

LEMMA ReceiveRejectedPreserves ==
  ASSUME OrdersOK, inbox \in [Orders -> SUBSET Nat],
         NEW o \in Orders, NEW n, ReceiveRejected(o, n)
  PROVE  OrdersOK'
  <1> USE ConstantsAssumption
  <1> DEFINE f == FreshCounters(Cleared(saga[o]))
  <1>1. /\ Arrives(o, n) /\ Awaited(o, n) /\ saga[o].status = "IN_PROGRESS"
        /\ outbox[o][n].operation \in {"CHARGE_PAYMENT", "RESERVE_INVENTORY", "CREATE_SHIPMENT"}
        /\ IF f.completedSteps = <<>>
           THEN Save(o, [f EXCEPT !.status = "FAILED"]) /\ UNCHANGED due
           ELSE Dispatch(o, [f EXCEPT !.status = "COMPENSATING"])
    BY DEF ReceiveRejected
  <1> HIDE DEF f
  <1>2. /\ outbox[o][n].operation = f.currentOperation
        /\ f \in Row
        /\ f.completedSteps = CompletedBefore[f.currentOperation]
        /\ f.compensatedSteps = <<>>
        /\ ~f.inventoryFinalized
        /\ f.pendingMessageId = 0 /\ f.interventionReason = None /\ f.leaseOwner = None
        /\ f.brokerAttempts = 0 /\ f.recoveryAttempts = 0
    BY <1>1, ForwardFacts DEF f
  <1>3. CASE f.completedSteps = <<>>
    <2> DEFINE t == [f EXCEPT !.status = "FAILED"]
    <2>1. Save(o, t) /\ due' = due
      BY <1>1, <1>3
    <2>2. /\ t \in Row /\ t.status = "FAILED"
          /\ t.currentOperation = f.currentOperation
          /\ t.completedSteps = f.completedSteps /\ t.compensatedSteps = f.compensatedSteps
          /\ t.inventoryFinalized = f.inventoryFinalized
          /\ t.pendingMessageId = 0 /\ t.interventionReason = None /\ t.leaseOwner = None
          /\ t.brokerAttempts = 0 /\ t.recoveryAttempts = 0
      BY <1>2 DEF Row, Statuses, Terminal
    <2> HIDE DEF t
    <2>3. f.currentOperation = "CHARGE_PAYMENT"
      BY <1>2, <1>3, Tables DEF Row
    <2>4. Progress(t)
      BY <1>2, <2>2, <2>3 DEF Progress, Active, CompletedBefore, UndoAfter
    <2>5. Counters(t)
      BY <2>2 DEF Counters, Active
    <2>6. OrderInv(t, outbox[o], inbox'[o], FALSE)
      BY <1>1, <2>2, <2>4, <2>5, AwaitedFacts DEF OrderInv, Pending, Delivered, Active
    <2>7. due' \subseteq Orders
      BY <2>1 DEF OrdersOK
    <2> QED
      BY <1>1, <2>1, <2>2, <2>6, <2>7, AwaitedFacts, SavePreserves
  <1>4. CASE f.completedSteps # <<>>
    <2> DEFINE t == [f EXCEPT !.status = "COMPENSATING"]
    <2>1. Dispatch(o, t)
      BY <1>1, <1>4
    <2>2. /\ t \in Row /\ t.status = "COMPENSATING"
          /\ t.currentOperation = f.currentOperation
          /\ t.completedSteps = f.completedSteps /\ t.compensatedSteps = f.compensatedSteps
          /\ t.inventoryFinalized = f.inventoryFinalized
          /\ t.interventionReason = None
          /\ t.brokerAttempts = 0 /\ t.recoveryAttempts = 0
      BY <1>2 DEF Row, Statuses, Active
    <2> HIDE DEF t
    <2>3. f.currentOperation \in {"RESERVE_INVENTORY", "CREATE_SHIPMENT"}
      BY <1>1, <1>2, <1>4, Tables DEF Row
    <2>4. Consistent(t)
      <3>1. UndoAfter[t.currentOperation] \in Seq(StepNames)
            /\ UndoAfter[t.currentOperation] # <<>>
        BY <2>2, <2>3, Tables DEF Row
      <3>2. SubSeq(UndoAfter[t.currentOperation], 1, 0) = <<>>
        BY <3>1, SubSeqEmpty
      <3>3. Len(<<>>) = 0 /\ 0 <= Len(UndoAfter[t.currentOperation])
        BY <3>1
      <3> QED
        BY <1>2, <2>2, <3>1, <3>2, <3>3 DEF Consistent, ConsistentCompensation
    <2>5. Ready(t)
      BY <2>2, <2>4 DEF Ready, Active
    <2> QED
      BY <1>1, <2>1, <2>5, AwaitedFacts, DispatchPreserves
  <1> QED
    BY <1>3, <1>4

LEMMA ReceiveStepSucceededPreserves ==
  ASSUME OrdersOK, inbox \in [Orders -> SUBSET Nat],
         NEW o \in Orders, NEW n, ReceiveStepSucceeded(o, n)
  PROVE  OrdersOK'
  <1> USE ConstantsAssumption
  <1> DEFINE f == FreshCounters(Cleared(saga[o]))
             t == [f EXCEPT !.completedSteps = Append(@, StepFor[f.currentOperation]),
                            !.currentOperation = Successor[f.currentOperation]]
  <1>1. /\ Arrives(o, n) /\ Awaited(o, n) /\ saga[o].status = "IN_PROGRESS"
        /\ outbox[o][n].operation # "FINALIZE_INVENTORY"
        /\ Dispatch(o, t)
    BY DEF ReceiveStepSucceeded
  <1> HIDE DEF f
  <1>2. /\ outbox[o][n].operation = f.currentOperation
        /\ f \in Row /\ f.status = "IN_PROGRESS"
        /\ f.completedSteps = CompletedBefore[f.currentOperation]
        /\ f.compensatedSteps = <<>>
        /\ ~f.inventoryFinalized
        /\ f.interventionReason = None
        /\ f.brokerAttempts = 0 /\ f.recoveryAttempts = 0
    BY <1>1, ForwardFacts DEF f
  <1>3. /\ Successor[f.currentOperation] \in ForwardOperations
        /\ Append(f.completedSteps, StepFor[f.currentOperation])
             = CompletedBefore[Successor[f.currentOperation]]
    BY <1>1, <1>2, Tables DEF Row
  <1>4. CompletedBefore[Successor[f.currentOperation]] \in Seq(StepNames)
    BY <1>3, Tables
  <1>5. /\ t \in Row /\ t.status = "IN_PROGRESS"
        /\ t.currentOperation = Successor[f.currentOperation]
        /\ t.completedSteps = CompletedBefore[Successor[f.currentOperation]]
        /\ t.compensatedSteps = <<>> /\ ~t.inventoryFinalized
        /\ t.interventionReason = None
        /\ t.brokerAttempts = 0 /\ t.recoveryAttempts = 0
    BY <1>2, <1>3, <1>4 DEF Row
  <1> HIDE DEF t
  <1>6. Ready(t)
    BY <1>5 DEF Ready, Active, Consistent, ConsistentForward
  <1> QED
    BY <1>1, <1>6, AwaitedFacts, DispatchPreserves

LEMMA ReceiveFinalizedPreserves ==
  ASSUME OrdersOK, inbox \in [Orders -> SUBSET Nat],
         NEW o \in Orders, NEW n, ReceiveFinalized(o, n)
  PROVE  OrdersOK'
  <1> USE ConstantsAssumption
  <1> DEFINE f == FreshCounters(Cleared(saga[o]))
             t == [f EXCEPT !.status = "COMPLETED", !.inventoryFinalized = TRUE]
  <1>1. /\ Arrives(o, n) /\ Awaited(o, n) /\ saga[o].status = "IN_PROGRESS"
        /\ outbox[o][n].operation = "FINALIZE_INVENTORY"
        /\ Save(o, t) /\ due' = due
    BY DEF ReceiveFinalized
  <1> HIDE DEF f
  <1>2. /\ outbox[o][n].operation = f.currentOperation
        /\ f \in Row
        /\ f.completedSteps = CompletedBefore[f.currentOperation]
        /\ f.compensatedSteps = <<>>
        /\ f.pendingMessageId = 0 /\ f.interventionReason = None /\ f.leaseOwner = None
        /\ f.brokerAttempts = 0 /\ f.recoveryAttempts = 0
    BY <1>1, ForwardFacts DEF f
  <1>3. /\ t \in Row /\ t.status = "COMPLETED"
        /\ t.completedSteps = f.completedSteps /\ t.compensatedSteps = <<>>
        /\ t.inventoryFinalized
        /\ t.pendingMessageId = 0 /\ t.interventionReason = None /\ t.leaseOwner = None
        /\ t.brokerAttempts = 0 /\ t.recoveryAttempts = 0
    BY <1>2 DEF Row, Statuses, Terminal
  <1> HIDE DEF t
  <1>4. f.completedSteps = Steps
    BY <1>1, <1>2 DEF CompletedBefore
  <1>5. Progress(t)
    BY <1>3, <1>4 DEF Progress, Active
  <1>6. Counters(t)
    BY <1>3 DEF Counters, Active
  <1>7. OrderInv(t, outbox[o], inbox'[o], FALSE)
    BY <1>1, <1>3, <1>5, <1>6, AwaitedFacts DEF OrderInv, Pending, Delivered, Active
  <1>8. due' \subseteq Orders
    BY <1>1 DEF OrdersOK
  <1> QED
    BY <1>1, <1>3, <1>7, <1>8, AwaitedFacts, SavePreserves

-----------------------------------------------------------------------------
(* Recovery.                                                               *)

(* A lease is taken or given up, and nothing else in the row changes.       *)
LEMMA LeaseRow ==
  ASSUME NEW s \in Row, NEW out, NEW seen, NEW late, OrderInv(s, out, seen, late),
         NEW owner \in Workers \cup {None},
         owner # None => s.status \in Active /\ s.interventionReason = None,
         NEW t, t = [s EXCEPT !.leaseOwner = owner]
  PROVE  t \in Row /\ OrderInv(t, out, seen, late)
  <1>1. /\ t.status = s.status /\ t.currentOperation = s.currentOperation
        /\ t.completedSteps = s.completedSteps /\ t.compensatedSteps = s.compensatedSteps
        /\ t.inventoryFinalized = s.inventoryFinalized
        /\ t.interventionReason = s.interventionReason /\ t.leaseOwner = owner
        /\ t.pendingMessageId = s.pendingMessageId
        /\ t.brokerAttempts = s.brokerAttempts /\ t.recoveryAttempts = s.recoveryAttempts
        /\ t \in Row
    BY DEF Row
  <1>2. Progress(t)
    BY <1>1 DEF OrderInv, Progress, Consistent, ConsistentForward, ConsistentCompensation, Undone
  <1>3. Counters(t)
    BY <1>1 DEF OrderInv, Counters
  <1>4. NextOperation(t) = NextOperation(s)
    BY <1>1 DEF NextOperation, Undone, NextUndo
  <1>5. Pending(t, out, seen, late) /\ Delivered(t, out)
    BY <1>1, <1>4 DEF OrderInv, Pending, Delivered
  <1> QED
    BY <1>1, <1>2, <1>3, <1>5 DEF OrderInv

LEMMA ClaimRecoveryPreserves ==
  ASSUME OrdersOK, NEW w \in Workers, NEW batch, ClaimRecovery(w, batch)
  PROVE  OrdersOK'
  <1>1. /\ batch \subseteq Claimable
        /\ saga' = [p \in Orders |->
                      IF p \in batch THEN [saga[p] EXCEPT !.leaseOwner = w] ELSE saga[p]]
        /\ lapsed' = lapsed \ batch
        /\ outbox' = outbox /\ inbox' = inbox /\ due' = due /\ overdue' = overdue
    BY DEF ClaimRecovery
  <1>2. ASSUME NEW p \in Orders
        PROVE  saga'[p] \in Row /\ OrderInv(saga'[p], outbox[p], inbox[p], p \in overdue)
    <2>1. saga[p] \in Row /\ OrderInv(saga[p], outbox[p], inbox[p], p \in overdue)
      BY DEF OrdersOK
    <2>2. CASE p \in batch
      <3>1. saga'[p] = [saga[p] EXCEPT !.leaseOwner = w]
        BY <1>1, <2>2
      <3>2. saga[p].status \in Active /\ saga[p].interventionReason = None
        BY <1>1, <2>2 DEF Claimable
      <3> QED
        BY <2>1, <3>1, <3>2, LeaseRow
    <2>3. CASE p \notin batch
      BY <1>1, <2>1, <2>3
    <2> QED
      BY <2>2, <2>3
  <1>3. saga' \in [Orders -> Row]
    <2>1. DOMAIN saga' = Orders /\ \A p \in Orders : saga'[p] \in Row
      BY <1>1, <1>2
    <2> QED
      BY <1>1, <2>1
  <1> QED
    BY <1>1, <1>2, <1>3 DEF OrdersOK

(* What is known of a claim whose lease still stands.                       *)
LEMMA LeasedFacts ==
  ASSUME OrdersOK, NEW w \in Workers, NEW o \in Orders, HoldsLease(w, o)
  PROVE  /\ saga[o] \in Row /\ outbox[o] \in Seq(Command)
         /\ OrderInv(saga[o], outbox[o], inbox[o], o \in overdue)
         /\ saga[o].status \in Active /\ Consistent(saga[o])
         /\ saga[o].interventionReason = None
         /\ saga[o].pendingMessageId # 0
         /\ saga[o].pendingMessageId = Len(outbox[o])
         /\ saga[o].pendingMessageId \in DOMAIN outbox[o]
         /\ inbox[o] \subseteq 1..Len(outbox[o])
         /\ saga[o].brokerAttempts <= RetryLimit
         /\ saga[o].recoveryAttempts < saga[o].brokerAttempts
  <1>1. /\ saga[o] \in Row /\ outbox[o] \in Seq(Command)
        /\ OrderInv(saga[o], outbox[o], inbox[o], o \in overdue)
        /\ saga[o].status \in Active /\ saga[o].interventionReason = None
    BY DEF OrdersOK, HoldsLease
  <1>2. /\ saga[o].pendingMessageId # 0
        /\ saga[o].pendingMessageId = Len(outbox[o])
        /\ inbox[o] \subseteq 1..Len(outbox[o])
    BY <1>1 DEF OrderInv, Pending
  <1>3. saga[o].pendingMessageId \in DOMAIN outbox[o]
    BY <1>1, <1>2
  <1> QED
    BY <1>1, <1>2, <1>3 DEF OrderInv, Progress, Counters

(* Recovery only ever gives up because the attempts are used up.            *)
LEMMA FaultIsExhaustion ==
  ASSUME OrdersOK, NEW w \in Workers, NEW o \in Orders, HoldsLease(w, o),
         RecoveryFault(o) # None
  PROVE  /\ RecoveryFault(o) = "RECOVERY_RETRIES_EXHAUSTED"
         /\ saga[o].brokerAttempts = RetryLimit
         /\ outbox[o][saga[o].pendingMessageId].delivery = "published"
         /\ o \in overdue
  <1> USE ConstantsAssumption
  <1>1. /\ Consistent(saga[o]) /\ saga[o].pendingMessageId \in DOMAIN outbox[o]
        /\ saga[o] \in Row
        /\ saga[o].brokerAttempts <= RetryLimit
        /\ saga[o].recoveryAttempts < saga[o].brokerAttempts
    BY LeasedFacts
  <1>2. /\ ~AwaitsDelivery(o)
        /\ saga[o].recoveryAttempts >= RetryLimit \/ saga[o].brokerAttempts >= RetryLimit
        /\ RecoveryFault(o) = "RECOVERY_RETRIES_EXHAUSTED"
    BY <1>1 DEF RecoveryFault
  <1>3. saga[o].brokerAttempts = RetryLimit
    BY <1>1, <1>2 DEF Row
  <1> QED
    BY <1>1, <1>2, <1>3 DEF AwaitsDelivery

LEMMA RecoverIntervenePreserves ==
  ASSUME OrdersOK, NEW w \in Workers, NEW o \in Orders, RecoverIntervene(w, o)
  PROVE  OrdersOK'
  <1> USE ConstantsAssumption
  <1> DEFINE t == [saga[o] EXCEPT !.interventionReason = "RECOVERY_RETRIES_EXHAUSTED",
                                  !.leaseOwner = None]
  <1>1. HoldsLease(w, o) /\ RecoveryFault(o) # None /\ inbox' = inbox
    BY DEF RecoverIntervene, Processes
  <1>2. Save(o, t) /\ due' = due
    BY <1>1, FaultIsExhaustion DEF RecoverIntervene, Intervene
  <1>3. /\ saga[o] \in Row /\ outbox[o] \in Seq(Command)
        /\ OrderInv(saga[o], outbox[o], inbox[o], o \in overdue)
        /\ saga[o].status \in Active
        /\ saga[o].pendingMessageId # 0
        /\ saga[o].brokerAttempts = RetryLimit
        /\ outbox[o][saga[o].pendingMessageId].delivery = "published"
        /\ o \in overdue
    BY <1>1, LeasedFacts, FaultIsExhaustion
  <1>4. /\ t \in Row
        /\ t.status = saga[o].status /\ t.currentOperation = saga[o].currentOperation
        /\ t.completedSteps = saga[o].completedSteps
        /\ t.compensatedSteps = saga[o].compensatedSteps
        /\ t.inventoryFinalized = saga[o].inventoryFinalized
        /\ t.interventionReason = "RECOVERY_RETRIES_EXHAUSTED" /\ t.leaseOwner = None
        /\ t.pendingMessageId = saga[o].pendingMessageId
        /\ t.brokerAttempts = saga[o].brokerAttempts
        /\ t.recoveryAttempts = saga[o].recoveryAttempts
    BY <1>3 DEF Row, Reasons
  <1> HIDE DEF t
  <1>5. Progress(t)
    BY <1>3, <1>4
       DEF OrderInv, Progress, Consistent, ConsistentForward, ConsistentCompensation, Undone
  <1>6. Counters(t)
    BY <1>3, <1>4 DEF OrderInv, Counters, Active
  <1>7. NextOperation(t) = NextOperation(saga[o])
    BY <1>4 DEF NextOperation, Undone, NextUndo
  <1>8. Pending(t, outbox[o], inbox[o], o \in overdue) /\ Delivered(t, outbox[o])
    BY <1>3, <1>4, <1>7 DEF OrderInv, Pending, Delivered
  <1>9. OrderInv(t, outbox[o], inbox'[o], o \in overdue)
    BY <1>1, <1>5, <1>6, <1>8 DEF OrderInv
  <1>10. due' \subseteq Orders
    BY <1>2 DEF OrdersOK
  <1> QED
    BY <1>1, <1>2, <1>3, <1>4, <1>9, <1>10, SavePreserves

LEMMA RecoverWaitPreserves ==
  ASSUME OrdersOK, NEW w \in Workers, NEW o \in Orders, RecoverWait(w, o)
  PROVE  OrdersOK'
  <1> DEFINE t == [saga[o] EXCEPT !.leaseOwner = None]
  <1>1. HoldsLease(w, o) /\ Save(o, t) /\ due' = due \ {o} /\ inbox' = inbox
    BY DEF RecoverWait, Processes
  <1>2. /\ saga[o] \in Row /\ saga[o].pendingMessageId # 0
        /\ OrderInv(saga[o], outbox[o], inbox[o], o \in overdue)
    BY <1>1, LeasedFacts
  <1>3. t \in Row /\ OrderInv(t, outbox[o], inbox[o], o \in overdue)
    BY <1>2, LeaseRow
  <1>4. t.pendingMessageId # 0
    BY <1>2 DEF Row
  <1>5. due' \subseteq Orders
    BY <1>1 DEF OrdersOK
  <1> HIDE DEF t
  <1> QED
    BY <1>1, <1>3, <1>4, <1>5, SavePreserves

LEMMA RecoverResendPreserves ==
  ASSUME OrdersOK, NEW w \in Workers, NEW o \in Orders, RecoverResend(w, o)
  PROVE  OrdersOK'
  <1> USE ConstantsAssumption
  <1> DEFINE t == [saga[o] EXCEPT !.pendingMessageId = 0, !.recoveryAttempts = @ + 1]
             n == saga[o].pendingMessageId
  <1>1. /\ HoldsLease(w, o) /\ RecoveryFault(o) = None /\ ~AwaitsDelivery(o)
        /\ Dispatch(o, t) /\ inbox' = inbox
    BY DEF RecoverResend, Processes
  <1>2. /\ saga[o] \in Row /\ outbox[o] \in Seq(Command)
        /\ OrderInv(saga[o], outbox[o], inbox[o], o \in overdue)
        /\ saga[o].status \in Active /\ Consistent(saga[o])
        /\ saga[o].interventionReason = None
        /\ n # 0 /\ n = Len(outbox[o]) /\ n \in DOMAIN outbox[o]
        /\ inbox[o] \subseteq 1..Len(outbox[o])
        /\ saga[o].brokerAttempts <= RetryLimit
        /\ saga[o].recoveryAttempts < saga[o].brokerAttempts
    BY <1>1, LeasedFacts
  <1>3. outbox[o][n].delivery = "published"
    BY <1>1, <1>2 DEF AwaitsDelivery
  <1>4. saga[o].brokerAttempts < RetryLimit
    <2>1. ~(saga[o].brokerAttempts >= RetryLimit)
      BY <1>1, <1>2 DEF RecoveryFault, None
    <2> QED
      BY <1>2, <2>1 DEF Row
  <1>5. \A m \in 1..Len(outbox[o]) : outbox[o][m].delivery # "queued"
    <2>1. \A m \in 1..Len(outbox[o]) : m < Len(outbox[o]) \/ m = n
      BY <1>2
    <2> QED
      BY <1>2, <1>3, <2>1 DEF OrderInv, Delivered
  <1>6. /\ t.status = saga[o].status /\ t.currentOperation = saga[o].currentOperation
        /\ t.completedSteps = saga[o].completedSteps
        /\ t.compensatedSteps = saga[o].compensatedSteps
        /\ t.inventoryFinalized = saga[o].inventoryFinalized
        /\ t.interventionReason = saga[o].interventionReason
        /\ t.brokerAttempts = saga[o].brokerAttempts
        /\ t.recoveryAttempts = saga[o].recoveryAttempts + 1
    BY <1>2 DEF Row
  <1>7. t \in Row
    <2>1. saga[o].recoveryAttempts + 1 \in Nat
      BY <1>2 DEF Row
    <2> QED
      BY <1>2, <2>1 DEF Row
  <1> HIDE DEF t
  <1>8. Consistent(t)
    BY <1>2, <1>6 DEF Consistent, ConsistentForward, ConsistentCompensation
  <1>9. Ready(t)
    BY <1>2, <1>4, <1>6, <1>7, <1>8 DEF Ready, Row
  <1> QED
    BY <1>1, <1>2, <1>5, <1>9, DispatchPreserves

-----------------------------------------------------------------------------
(* The relay and the clock.                                                *)

(* A command of o changes its delivery, and was not pending and published.  *)
LEMMA DeliveryPreserves ==
  ASSUME OrdersOK, NEW o \in Orders, NEW n \in DOMAIN outbox[o],
         outbox[o][n].delivery # "published",
         NEW d \in {"sent", "published"},
         outbox' = [outbox EXCEPT ![o][n].delivery = d],
         UNCHANGED <<saga, inbox, due, overdue, lapsed>>
  PROVE  OrdersOK'
  <1> DEFINE out == outbox[o]
             c == [out[n] EXCEPT !.delivery = d]
             out2 == [out EXCEPT ![n] = c]
  <1>1. /\ outbox \in [Orders -> Seq(Command)] /\ out \in Seq(Command)
        /\ outbox' = [outbox EXCEPT ![o] = out2]
        /\ n \in 1..Len(out) /\ out[n] \in Command
    <2>1. outbox \in [Orders -> Seq(Command)] /\ out \in Seq(Command)
      BY DEF OrdersOK
    <2>2. n \in 1..Len(out)
      BY <2>1, LenProperties
    <2>3. out[n] \in Command
      BY <2>1, <2>2, ElementOfSeq
    <2> QED
      BY <2>1, <2>2, <2>3
  <1>2. c \in Command /\ c.operation = out[n].operation /\ c.delivery = d
    BY <1>1 DEF Command
  <1> HIDE DEF c
  <1>3. /\ out2 \in Seq(Command) /\ Len(out2) = Len(out)
        /\ out2[n] = c
        /\ \A m \in 1..Len(out) : m # n => out2[m] = out[m]
    <2> HIDE DEF out
    <2>1. out2 \in Seq(Command) /\ Len(out2) = Len(out)
      BY <1>1, <1>2, ExceptSeq
    <2>2. DOMAIN out = 1..Len(out)
      BY <1>1, LenProperties
    <2> QED
      BY <1>1, <2>1, <2>2
  <1> HIDE DEF out2
  <1>4. ASSUME NEW p \in Orders
        PROVE  outbox'[p] \in Seq(Command)
               /\ OrderInv(saga[p], outbox'[p], inbox[p], p \in overdue)
    <2>1. OrderInv(saga[p], outbox[p], inbox[p], p \in overdue)
          /\ outbox[p] \in Seq(Command)
      BY DEF OrdersOK
    <2>2. CASE p = o
      <3>1. outbox'[p] = out2
        BY <1>1, <2>2
      <3>2. \A m \in 1..Len(out) :
              /\ out2[m].operation = out[m].operation
              /\ out2[m].delivery = "queued" => out[m].delivery = "queued"
              /\ out[m].delivery = "published" => out2[m].delivery = "published"
        BY <1>2, <1>3
      <3>3. Delivered(saga[p], out2)
        BY <1>3, <2>1, <2>2, <3>2 DEF OrderInv, Delivered
      <3>4. Pending(saga[p], out2, inbox[p], p \in overdue)
        <4> DEFINE k == saga[p].pendingMessageId
        <4>1. k # 0 => k \in 1..Len(out)
          <5>1. k \in Nat /\ Len(out) \in Nat
            BY <1>1 DEF OrdersOK, Row
          <5> QED
            BY <2>1, <2>2, <5>1 DEF OrderInv, Pending
        <4> QED
          BY <1>3, <2>1, <2>2, <3>2, <4>1 DEF OrderInv, Pending
      <3> QED
        BY <1>3, <2>1, <3>1, <3>3, <3>4 DEF OrderInv
    <2>3. CASE p # o
      BY <1>1, <2>1, <2>3
    <2> QED
      BY <2>2, <2>3
  <1>5. outbox' \in [Orders -> Seq(Command)]
    BY <1>1, <1>3
  <1> QED
    BY <1>4, <1>5 DEF OrdersOK

LEMMA RelayPreserves ==
  ASSUME OrdersOK, NEW o \in Orders, NEW n \in DOMAIN outbox[o], Relay(o, n)
  PROVE  OrdersOK'
  <1>1. CASE RelayPublish(o, n)
    BY <1>1, DeliveryPreserves DEF RelayPublish, clocks
  <1>2. CASE RelayMark(o, n)
    BY <1>2, DeliveryPreserves DEF RelayMark, clocks
  <1> QED
    BY <1>1, <1>2 DEF Relay

LEMMA PassTimePreserves ==
  ASSUME OrdersOK, NEW o \in Orders, PassTime(o)
  PROVE  OrdersOK'
  <1>1. CASE PassNextAttempt(o)
    BY <1>1 DEF PassNextAttempt, OrdersOK
  <1>2. CASE PassLease(o)
    BY <1>2 DEF PassLease, OrdersOK
  <1>3. CASE PassResponseDeadline(o)
    <2>1. /\ saga' = saga /\ outbox' = outbox /\ inbox' = inbox /\ due' = due
          /\ lapsed' = lapsed /\ overdue' = overdue \cup {o}
      BY <1>3 DEF PassResponseDeadline
    <2>2. ASSUME NEW p \in Orders
          PROVE  OrderInv(saga[p], outbox[p], inbox[p], p \in overdue')
      <3>1. OrderInv(saga[p], outbox[p], inbox[p], p \in overdue)
        BY DEF OrdersOK
      <3>2. p \in overdue => p \in overdue'
        BY <2>1
      <3> QED
        BY <3>1, <3>2 DEF OrderInv, Pending
    <2> QED
      BY <2>1, <2>2 DEF OrdersOK
  <1> QED
    BY <1>1, <1>2, <1>3 DEF PassTime

-----------------------------------------------------------------------------
(* The invariant is inductive.                                             *)

Others ==
  /\ inbox \in [Orders -> SUBSET Nat]
  /\ dead \in [Orders -> SUBSET Nat]
  /\ holding \in [Workers -> SUBSET Orders]
  /\ resumes \in [Orders -> 0..MaxResumes]

LEMMA IInvParts == IInv <=> OrdersOK /\ Others
  BY DEF IInv, TypeOK, OrdersOK, Others

LEMMA RequestOthers ==
  ASSUME Others, NEW o \in Orders, Request(o)
  PROVE  Others'
  <1> USE ConstantsAssumption
  <1>1. CASE \E method \in Methods : Accept(o, method)
    BY <1>1 DEF Accept, Others
  <1>2. CASE ConfirmPayment(o)
    BY <1>2 DEF ConfirmPayment, Others
  <1>3. CASE Resume(o)
    <2>1. resumes[o] + 1 \in 0..MaxResumes
      BY <1>3 DEF Resume, Others
    <2>2. resumes' = [resumes EXCEPT ![o] = @ + 1] /\ UNCHANGED <<inbox, dead, holding>>
      BY <1>3 DEF Resume
    <2> QED
      BY <2>1, <2>2 DEF Others
  <1> QED
    BY <1>1, <1>2, <1>3 DEF Request

LEMMA ReceiveOthers ==
  ASSUME OrdersOK, Others, NEW o \in Orders, NEW n \in DOMAIN outbox[o], Receive(o, n)
  PROVE  Others'
  <1>1. n \in Nat
    BY LenProperties DEF OrdersOK
  <1>2. Arrives(o, n) /\ dead' \in {dead, [dead EXCEPT ![o] = @ \cup {n}]}
    BY DEF Receive, ReceiveStale, ReceiveCompensated, ReceiveRetryable, ReceiveRejected,
           ReceiveStepSucceeded, ReceiveFinalized
  <1>3. dead' \in [Orders -> SUBSET Nat]
    BY <1>1, <1>2 DEF Others
  <1> QED
    BY <1>1, <1>2, <1>3 DEF Arrives, Others

LEMMA RecoverClaimOthers ==
  ASSUME Others, NEW w \in Workers, NEW o \in Orders, RecoverClaim(w, o)
  PROVE  Others'
  <1>1. Processes(w, o)
    BY DEF RecoverClaim, Recover, RecoverFenced, RecoverIntervene, RecoverWait, RecoverResend
  <1> QED
    BY <1>1 DEF Processes, Others

LEMMA NextIInv == IInv /\ [Next]_vars => IInv'
  <1> SUFFICES ASSUME IInv, [Next]_vars PROVE IInv'
    OBVIOUS
  <1>1. OrdersOK /\ Others
    BY IInvParts
  <1>2. ASSUME NEW o \in Orders, Request(o) PROVE OrdersOK' /\ Others'
    BY <1>1, <1>2, RequestOthers, AcceptPreserves, ConfirmPaymentPreserves, ResumePreserves
       DEF Request
  <1>3. ASSUME NEW o \in Orders, NEW n \in DOMAIN outbox[o], Receive(o, n)
        PROVE  OrdersOK' /\ Others'
    <2>1. Others'
      BY <1>1, <1>3, ReceiveOthers
    <2>2. inbox \in [Orders -> SUBSET Nat]
      BY <1>1 DEF Others
    <2> QED
      BY <1>1, <1>3, <2>1, <2>2, ReceiveStalePreserves, ReceiveCompensatedPreserves,
         ReceiveRetryablePreserves, ReceiveRejectedPreserves, ReceiveStepSucceededPreserves,
         ReceiveFinalizedPreserves
         DEF Receive
  <1>4. ASSUME NEW o \in Orders, NEW n \in DOMAIN outbox[o], Relay(o, n)
        PROVE  OrdersOK' /\ Others'
    <2>1. Others'
      BY <1>1, <1>4 DEF Relay, RelayPublish, RelayMark, Others
    <2> QED
      BY <1>1, <1>4, <2>1, RelayPreserves
  <1>5. ASSUME NEW o \in Orders, PassTime(o) PROVE OrdersOK' /\ Others'
    <2>1. Others'
      BY <1>1, <1>5 DEF PassTime, PassNextAttempt, PassResponseDeadline, PassLease, Others
    <2> QED
      BY <1>1, <1>5, <2>1, PassTimePreserves
  <1>6. ASSUME NEW w \in Workers, NEW batch \in SUBSET Claimable, ClaimRecovery(w, batch)
        PROVE  OrdersOK' /\ Others'
    <2>1. Others'
      BY <1>1, <1>6 DEF ClaimRecovery, Claimable, Others
    <2> QED
      BY <1>1, <1>6, <2>1, ClaimRecoveryPreserves
  <1>7. ASSUME NEW w \in Workers, NEW o \in holding[w], RecoverClaim(w, o)
        PROVE  OrdersOK' /\ Others'
    <2>1. o \in Orders
      BY <1>1 DEF Others
    <2>2. Others'
      BY <1>1, <1>7, <2>1, RecoverClaimOthers
    <2>3. CASE RecoverFenced(w, o)
      BY <1>1, <2>2, <2>3 DEF RecoverFenced, Processes, clocks, OrdersOK
    <2>4. CASE RecoverIntervene(w, o)
      BY <1>1, <2>1, <2>2, <2>4, RecoverIntervenePreserves
    <2>5. CASE RecoverWait(w, o)
      BY <1>1, <2>1, <2>2, <2>5, RecoverWaitPreserves
    <2>6. CASE RecoverResend(w, o)
      BY <1>1, <2>1, <2>2, <2>6, RecoverResendPreserves
    <2> QED
      BY <1>7, <2>3, <2>4, <2>5, <2>6 DEF RecoverClaim, Recover
  <1>8. ASSUME NEW w \in Workers, AbandonScan(w) PROVE OrdersOK' /\ Others'
    BY <1>1, <1>8 DEF AbandonScan, clocks, OrdersOK, Others
  <1>9. ASSUME UNCHANGED vars PROVE OrdersOK' /\ Others'
    <2>1. /\ saga' = saga /\ outbox' = outbox /\ inbox' = inbox /\ dead' = dead /\ due' = due
          /\ overdue' = overdue /\ lapsed' = lapsed /\ holding' = holding /\ resumes' = resumes
      BY <1>9 DEF vars
    <2> QED
      BY <1>1, <2>1 DEF OrdersOK, Others
  <1>10. OrdersOK' /\ Others'
    <2>1. CASE Next
      BY <2>1, <1>2, <1>3, <1>4, <1>5, <1>6, <1>7, <1>8, Zenon DEF Next
    <2> QED
      BY <1>9, <2>1
  <1> QED
    BY <1>10, IInvParts DEF IInv, TypeOK, OrdersOK, Others

-----------------------------------------------------------------------------
(* The theorems.                                                           *)

(* IInv holds throughout: the invariant all of the following rest on.       *)
THEOREM Invariance == Spec => []IInv
  <1>1. IInv /\ [Next]_vars => IInv'
    BY NextIInv
  <1> QED
    BY InitIInv, <1>1, PTL DEF Spec

(* Every value the handlers store has its column's type.                    *)
THEOREM TypeCorrect == Spec => []TypeOK
  <1>1. IInv => TypeOK
    BY DEF IInv
  <1> QED
    BY <1>1, Invariance, PTL

(* next() and nextCompensation() never throw on an active saga, so recovery *)
(* never reports INCONSISTENT_PROGRESS and a resume is never refused.       *)
THEOREM ProgressIsConsistent == Spec => []ProgressConsistent
  <1>1. IInv => ProgressConsistent
    BY DEF IInv, OrderInv, Progress, ProgressConsistent
  <1> QED
    BY <1>1, Invariance, PTL

(* COMPLETED means every step done and finalized, FAILED every completed    *)
(* step undone in reverse.                                                  *)
THEOREM TerminalIsSettled == Spec => []TerminalSettled
  <1>1. IInv => TerminalSettled
    <2> SUFFICES ASSUME IInv, NEW o \in Orders
                 PROVE  LET s == saga[o]
                        IN /\ s.status = "COMPLETED" =>
                                /\ s.completedSteps = Steps
                                /\ s.compensatedSteps = <<>>
                                /\ s.inventoryFinalized
                           /\ s.status = "FAILED" =>
                                /\ Len(s.compensatedSteps) = Len(s.completedSteps)
                                /\ \A i \in DOMAIN s.completedSteps :
                                     s.compensatedSteps[i]
                                       = s.completedSteps[Len(s.completedSteps) + 1 - i]
                           /\ s.inventoryFinalized => s.status = "COMPLETED"
      BY DEF TerminalSettled
    <2>1. Progress(saga[o]) /\ saga[o] \in Row
      BY DEF IInv, OrderInv, TypeOK
    <2>2. ASSUME saga[o].status = "FAILED"
          PROVE  /\ Len(saga[o].compensatedSteps) = Len(saga[o].completedSteps)
                 /\ \A i \in DOMAIN saga[o].completedSteps :
                      saga[o].compensatedSteps[i]
                        = saga[o].completedSteps[Len(saga[o].completedSteps) + 1 - i]
      BY <2>1, <2>2, UndoReverses DEF Progress, Row
    <2>3. saga[o].inventoryFinalized => saga[o].status = "COMPLETED"
      BY <2>1 DEF Progress, Row, Statuses, Active, Terminal, Consistent,
                  ConsistentForward, ConsistentCompensation
    <2> QED
      BY <2>1, <2>2, <2>3 DEF Progress
  <1> QED
    BY <1>1, Invariance, PTL

(* An active saga no operator was asked about has its newest command        *)
(* outstanding and unanswered: recovery never meets MISSING_COMMAND.        *)
THEOREM CommandIsOutstanding == Spec => []CommandOutstanding
  <1>1. IInv => CommandOutstanding
    <2> SUFFICES ASSUME IInv, NEW o \in Orders,
                        saga[o].status \in Active, saga[o].interventionReason = None
                 PROVE  LET n == saga[o].pendingMessageId
                        IN /\ n > 0 /\ n = Len(outbox[o])
                           /\ outbox[o][n].operation = NextOperation(saga[o])
                           /\ n \notin inbox[o]
      BY DEF CommandOutstanding
    <2>1. Pending(saga[o], outbox[o], inbox[o], o \in overdue)
          /\ saga[o].pendingMessageId \in Nat
      BY DEF IInv, OrderInv, TypeOK, Row
    <2> QED
      BY <2>1 DEF Pending
  <1> QED
    BY <1>1, Invariance, PTL

(* Operators are asked exactly when the attempts of a command are used up.  *)
THEOREM InterventionIsDeserved == Spec => []InterventionDeserved
  <1>1. IInv => InterventionDeserved
    BY DEF IInv, OrderInv, Counters, InterventionDeserved
  <1> QED
    BY <1>1, Invariance, PTL

(* A command is never superseded before the broker has it.                  *)
THEOREM NoBacklogGrows == Spec => []NoBacklog
  <1>1. IInv => NoBacklog
    <2> SUFFICES ASSUME IInv, NEW o \in Orders, NEW n \in DOMAIN outbox[o],
                        n < Len(outbox[o])
                 PROVE  outbox[o][n].delivery # "queued"
      BY DEF NoBacklog
    <2>1. outbox[o] \in Seq(Command) /\ Delivered(saga[o], outbox[o])
      BY DEF IInv, OrderInv, TypeOK
    <2> QED
      BY <2>1, LenProperties DEF Delivered
  <1> QED
    BY <1>1, Invariance, PTL

(* Leases are held only on sagas that recovery may still move.              *)
THEOREM LeasesAreOnActive == Spec => []LeasesOnActive
  <1>1. IInv => LeasesOnActive
    BY DEF IInv, OrderInv, Counters, LeasesOnActive
  <1> QED
    BY <1>1, Invariance, PTL

-----------------------------------------------------------------------------
(* The orchestrator implements the abstract saga of module Saga and never  *)
(* sends a command again early.                                            *)

(* A step that changes one row, in one of these ways, is a step of the      *)
(* abstract saga or leaves it alone.                                        *)
LEMMA RowStepIsAbstract ==
  ASSUME saga \in [Orders -> Row], NEW o \in Orders, NEW t,
         saga' = [saga EXCEPT ![o] = t], RowStep(saga[o], t)
  PROVE  [Abstract!Next]_(Abstract!vars)
  <1> DEFINE status == [p \in Orders |-> saga[p].status]
             held == [p \in Orders |-> Held(saga[p])]
             statusNext == [p \in Orders |-> saga'[p].status]
             heldNext == [p \in Orders |-> Held(saga'[p])]
  <1>1. \A p \in Orders : saga'[p] = IF p = o THEN t ELSE saga[p]
    OBVIOUS
  <1>2. /\ statusNext = [status EXCEPT ![o] = t.status]
        /\ heldNext = [held EXCEPT ![o] = Held(t)]
    BY <1>1
  <1>3. status[o] = saga[o].status /\ held[o] = Held(saga[o])
    OBVIOUS
  <1> HIDE DEF status, held, statusNext, heldNext
  <1>4. CASE Keeps(saga[o], t)
    <2>1. \A p \in Orders : saga'[p].status = saga[p].status /\ Held(saga'[p]) = Held(saga[p])
      BY <1>1, <1>4 DEF Keeps
    <2>2. statusNext = status /\ heldNext = held
      BY <2>1 DEF status, held, statusNext, heldNext
    <2> QED
      BY <2>2 DEF Abstract!vars, status, held, statusNext, heldNext
  <1>5. CASE Opens(saga[o], t)
    <2>1. Abstract!Accept(o)
      BY <1>2, <1>3, <1>5
         DEF Opens, Abstract!Accept, Abstract!Move, status, held, statusNext, heldNext
    <2> QED
      BY <2>1 DEF Abstract!Next
  <1>6. CASE Confirms(saga[o], t)
    <2>1. Abstract!ConfirmPayment(o)
      BY <1>2, <1>3, <1>6
         DEF Confirms, Abstract!ConfirmPayment, Abstract!Move, status, held, statusNext, heldNext
    <2> QED
      BY <2>1 DEF Abstract!Next
  <1>7. CASE Advances(saga[o], t)
    <2>1. Abstract!Advance(o)
      BY <1>2, <1>3, <1>7
         DEF Advances, Abstract!Advance, Abstract!Move, Abstract!Steps, Steps, status, held,
             statusNext, heldNext
    <2> QED
      BY <2>1 DEF Abstract!Next
  <1>8. CASE Completes(saga[o], t)
    <2>1. Abstract!Complete(o)
      BY <1>2, <1>3, <1>8
         DEF Completes, Abstract!Complete, Abstract!Move, Abstract!Steps, Steps, status, held,
             statusNext, heldNext
    <2> QED
      BY <2>1 DEF Abstract!Next
  <1>9. CASE Rejects(saga[o], t)
    <2>1. Abstract!Reject(o)
      BY <1>2, <1>3, <1>9
         DEF Rejects, Abstract!Reject, Abstract!Move, Abstract!Steps, Steps, status, held,
             statusNext, heldNext
    <2> QED
      BY <2>1 DEF Abstract!Next
  <1>10. CASE Undoes(saga[o], t)
    <2>1. Abstract!Undo(o)
      BY <1>2, <1>3, <1>10
         DEF Undoes, Abstract!Undo, Abstract!Move, status, held, statusNext, heldNext
    <2> QED
      BY <2>1 DEF Abstract!Next
  <1> QED
    BY <1>4, <1>5, <1>6, <1>7, <1>8, <1>9, <1>10 DEF RowStep

(* A step that changes no row's status and progress leaves it alone.        *)
LEMMA KeptRowsAreAbstract ==
  ASSUME \A p \in Orders : Keeps(saga[p], saga'[p])
  PROVE  [Abstract!Next]_(Abstract!vars)
  <1>1. /\ [p \in Orders |-> saga'[p].status] = [p \in Orders |-> saga[p].status]
        /\ [p \in Orders |-> Held(saga'[p])] = [p \in Orders |-> Held(saga[p])]
    BY DEF Keeps
  <1> QED
    BY <1>1 DEF Abstract!vars

(* What dispatch() leaves of the row it was given.                          *)
LEMMA DispatchedRow ==
  ASSUME saga \in [Orders -> Row], NEW o \in Orders, NEW s \in Row, Dispatch(o, s)
  PROVE  \E t : /\ saga' = [saga EXCEPT ![o] = t]
                /\ Held(t) = Held(s)
                /\ t.status = IF s.status = "COMPENSATING" /\ Undone(s)
                              THEN "FAILED" ELSE s.status
  <1>1. s.status = "COMPENSATING" /\ ~Undone(s) => NextUndo(s) \in StepNames
    <2> SUFFICES ASSUME s.status = "COMPENSATING", ~Undone(s) PROVE NextUndo(s) \in StepNames
      OBVIOUS
    <2>1. UndoAfter[s.currentOperation] \in Seq(StepNames)
      BY Tables DEF Row
    <2>2. /\ Len(s.compensatedSteps) \in Nat
          /\ Len(s.compensatedSteps) < Len(UndoAfter[s.currentOperation])
      BY <2>1 DEF Undone, Row
    <2> QED
      BY <2>1, <2>2, PrefixGrows DEF NextUndo
  <1>2. (NextOperation(s) = None) <=> (s.status = "COMPENSATING" /\ Undone(s))
    <2>1. s.currentOperation # None
      BY DEF Row, ForwardOperations, None
    <2>2. NextUndo(s) \in StepNames => ReverseOperation[NextUndo(s)] # None
      BY DEF StepNames, ReverseOperation, None
    <2> QED
      BY <1>1, <2>1, <2>2 DEF NextOperation
  <1>3. CASE NextOperation(s) = None
    <2> DEFINE t == [s EXCEPT !.status = "FAILED", !.pendingMessageId = 0, !.leaseOwner = None]
    <2>1. saga' = [saga EXCEPT ![o] = t]
      BY <1>3 DEF Dispatch, Save
    <2>2. Held(t) = Held(s) /\ t.status = "FAILED"
      BY DEF Held, Row
    <2> QED
      BY <1>2, <1>3, <2>1, <2>2
  <1>4. CASE NextOperation(s) # None
    <2> DEFINE t == [s EXCEPT !.pendingMessageId = Len(outbox[o]) + 1,
                              !.brokerAttempts = @ + 1,
                              !.leaseOwner = None]
    <2>1. saga' = [saga EXCEPT ![o] = t]
      BY <1>4 DEF Dispatch
    <2>2. Held(t) = Held(s) /\ t.status = s.status
      BY DEF Held, Row
    <2> QED
      BY <1>2, <1>4, <2>1, <2>2
  <1> QED
    BY <1>3, <1>4

-----------------------------------------------------------------------------
(* What each handler does to the row it locks.                             *)

(* The row of o becomes another one, by a step the abstract saga knows.     *)
Moves(o) == \E t : saga' = [saga EXCEPT ![o] = t] /\ RowStep(saga[o], t)

LEMMA RowFacts ==
  ASSUME OrdersOK, NEW o \in Orders
  PROVE  /\ saga[o] \in Row
         /\ Progress(saga[o])
         /\ saga[o].status = "COMPENSATING" => ~Undone(saga[o])
  BY DEF OrdersOK, OrderInv, Progress

LEMMA AcceptMoves ==
  ASSUME OrdersOK, NEW o \in Orders, NEW method \in Methods, Accept(o, method)
  PROVE  Moves(o)
  <1> USE ConstantsAssumption
  <1> DEFINE row(status) == NewRow(status, method)
  <1>1. saga[o].status = "ABSENT" /\ saga[o].completedSteps = <<>>
        /\ saga[o].compensatedSteps = <<>> /\ saga \in [Orders -> Row]
    BY RowFacts DEF Accept, Progress, OrdersOK
  <1>2. ASSUME NEW status \in {"PENDING_PAYMENT", "IN_PROGRESS"}
        PROVE  /\ row(status) \in Row /\ row(status).status = status
               /\ Held(row(status)) = Held(saga[o])
    <2>1. row(status) \in Row
      BY DEF NewRow, Row, Statuses, Active, ForwardOperations, PaymentMethods
    <2>2. /\ row(status).status = status
          /\ row(status).completedSteps = <<>> /\ row(status).compensatedSteps = <<>>
      BY DEF NewRow
    <2> QED
      BY <1>1, <2>1, <2>2 DEF Held
  <1> HIDE DEF row
  <1>3. CASE method = "BANK_TRANSFER"
    <2>1. saga' = [saga EXCEPT ![o] = row("PENDING_PAYMENT")]
      BY <1>3 DEF Accept, row
    <2> QED
      BY <1>1, <1>2, <2>1 DEF Moves, RowStep, Opens
  <1>4. CASE method # "BANK_TRANSFER"
    <2>1. Dispatch(o, row("IN_PROGRESS"))
      BY <1>4 DEF Accept, row
    <2>2. PICK t : /\ saga' = [saga EXCEPT ![o] = t]
                   /\ Held(t) = Held(row("IN_PROGRESS")) /\ t.status = "IN_PROGRESS"
      BY <1>1, <1>2, <2>1, DispatchedRow
    <2> QED
      BY <1>1, <1>2, <2>2 DEF Moves, RowStep, Opens
  <1> QED
    BY <1>3, <1>4

LEMMA ConfirmPaymentMoves ==
  ASSUME OrdersOK, NEW o \in Orders, ConfirmPayment(o)
  PROVE  Moves(o)
  <1> DEFINE s == [saga[o] EXCEPT !.status = "IN_PROGRESS"]
  <1>1. saga[o].status = "PENDING_PAYMENT" /\ Dispatch(o, s)
    BY DEF ConfirmPayment
  <1>2. s \in Row /\ s.status = "IN_PROGRESS" /\ Held(s) = Held(saga[o])
    BY RowFacts DEF Row, Statuses, Active, Held
  <1> HIDE DEF s
  <1>3. PICK t : /\ saga' = [saga EXCEPT ![o] = t]
                 /\ Held(t) = Held(s) /\ t.status = "IN_PROGRESS"
    BY <1>1, <1>2, DispatchedRow DEF OrdersOK
  <1> QED
    BY <1>1, <1>2, <1>3 DEF Moves, RowStep, Confirms

(* A row whose progress is as before is dispatched again.                   *)
LEMMA SentAgainMoves ==
  ASSUME OrdersOK, NEW o \in Orders, NEW s \in Row, Dispatch(o, s),
         s.status = saga[o].status, s.currentOperation = saga[o].currentOperation,
         s.completedSteps = saga[o].completedSteps,
         s.compensatedSteps = saga[o].compensatedSteps
  PROVE  Moves(o)
  <1>1. ~(s.status = "COMPENSATING" /\ Undone(s))
    BY RowFacts DEF Undone
  <1>2. PICK t : /\ saga' = [saga EXCEPT ![o] = t]
                 /\ Held(t) = Held(s) /\ t.status = s.status
    BY <1>1, DispatchedRow DEF OrdersOK
  <1>3. Held(s) = Held(saga[o])
    BY DEF Held
  <1> QED
    BY <1>2, <1>3 DEF Moves, RowStep, Keeps

LEMMA ResumeMoves ==
  ASSUME OrdersOK, NEW o \in Orders, Resume(o)
  PROVE  Moves(o)
  <1> DEFINE s == [FreshCounters(saga[o]) EXCEPT !.interventionReason = None]
  <1>1. Dispatch(o, s)
    BY DEF Resume
  <1>2. /\ s \in Row /\ s.status = saga[o].status
        /\ s.currentOperation = saga[o].currentOperation
        /\ s.completedSteps = saga[o].completedSteps
        /\ s.compensatedSteps = saga[o].compensatedSteps
    BY RowFacts DEF FreshCounters, Row
  <1> HIDE DEF s
  <1> QED
    BY <1>1, <1>2, SentAgainMoves

LEMMA ReceiveRetryableMoves ==
  ASSUME OrdersOK, inbox \in [Orders -> SUBSET Nat],
         NEW o \in Orders, NEW n, ReceiveRetryable(o, n)
  PROVE  Moves(o)
  <1> DEFINE s == Cleared(saga[o])
             t == [s EXCEPT !.interventionReason = "COMMAND_RETRIES_EXHAUSTED",
                            !.leaseOwner = None]
  <1>1. /\ s \in Row /\ s.status = saga[o].status
        /\ s.currentOperation = saga[o].currentOperation
        /\ s.completedSteps = saga[o].completedSteps
        /\ s.compensatedSteps = saga[o].compensatedSteps
    BY RowFacts, ClearedRow
  <1>2. Dispatch(o, s) \/ saga' = [saga EXCEPT ![o] = t]
    BY DEF ReceiveRetryable, Intervene, Save
  <1>3. t.status = s.status /\ Held(t) = Held(s) /\ Held(s) = Held(saga[o])
    <2> HIDE DEF s
    <2> QED
      BY <1>1 DEF Row, Held
  <1> HIDE DEF s, t
  <1> QED
    BY <1>1, <1>2, <1>3, SentAgainMoves DEF Moves, RowStep, Keeps

LEMMA ReceiveCompensatedMoves ==
  ASSUME OrdersOK, inbox \in [Orders -> SUBSET Nat],
         NEW o \in Orders, NEW n, ReceiveCompensated(o, n)
  PROVE  Moves(o)
  <1> DEFINE r == saga[o]
             u == UndoAfter[r.currentOperation]
             c == r.completedSteps
             k == Len(r.compensatedSteps)
             f == FreshCounters(Cleared(r))
             s == [f EXCEPT !.compensatedSteps = Append(@, NextUndo(r))]
  <1>1. Arrives(o, n) /\ Awaited(o, n) /\ r.status = "COMPENSATING" /\ Dispatch(o, s)
    BY DEF ReceiveCompensated
  <1>2. r \in Row /\ ConsistentCompensation(r) /\ ~Undone(r)
    BY <1>1, AwaitedFacts DEF Consistent
  <1>3. u \in Seq(StepNames) /\ k \in Nat /\ k < Len(u) /\ c \in Seq(StepNames)
        /\ Len(u) = Len(c)
    BY <1>2, Tables, ForwardTables DEF Undone, Row, ConsistentCompensation
  <1>4. NextUndo(r) \in StepNames
    BY <1>3, PrefixGrows DEF NextUndo
  <1>5. /\ s \in Row /\ s.status = "COMPENSATING"
        /\ s.currentOperation = r.currentOperation /\ s.completedSteps = c
        /\ Len(s.compensatedSteps) = k + 1
    <2>1. /\ Append(r.compensatedSteps, NextUndo(r)) \in Seq(StepNames)
          /\ Len(Append(r.compensatedSteps, NextUndo(r))) = k + 1
      BY <1>2, <1>4 DEF Row
    <2>2. /\ f \in Row /\ f.status = r.status /\ f.currentOperation = r.currentOperation
          /\ f.completedSteps = c /\ f.compensatedSteps = r.compensatedSteps
      BY <1>2, FreshRow
    <2> HIDE DEF f
    <2> QED
      BY <1>1, <2>1, <2>2 DEF Row
  <1> HIDE DEF s, f
  <1>6. PICK t : /\ saga' = [saga EXCEPT ![o] = t]
                 /\ Held(t) = Held(s)
                 /\ t.status = IF Undone(s) THEN "FAILED" ELSE "COMPENSATING"
    BY <1>1, <1>5, DispatchedRow DEF OrdersOK
  <1>7. Held(r) = SubSeq(c, 1, Len(c) - k) /\ Held(s) = SubSeq(c, 1, Len(c) - k - 1)
    <2>1. Len(c) - (k + 1) = Len(c) - k - 1
      BY <1>3
    <2> QED
      BY <1>5, <2>1 DEF Held
  <1>8. Len(c) - k \in 1..Len(c)
    <2>1. Len(c) \in Nat
      BY <1>3, LenProperties
    <2> HIDE DEF c, k, u
    <2> QED
      BY <1>3, <2>1
  <1>9. Len(Held(r)) = Len(c) - k /\ Held(s) = SubSeq(Held(r), 1, Len(Held(r)) - 1)
    BY <1>3, <1>7, <1>8, ShorterPrefix
  <1>10. Undone(s) <=> Len(Held(r)) = 1
    BY <1>3, <1>5, <1>9 DEF Undone
  <1> QED
    BY <1>1, <1>6, <1>9, <1>10 DEF Moves, RowStep, Undoes

LEMMA ForwardHeld ==
  ASSUME OrdersOK, inbox \in [Orders -> SUBSET Nat],
         NEW o \in Orders, NEW n, Arrives(o, n), Awaited(o, n),
         saga[o].status = "IN_PROGRESS"
  PROVE  /\ Held(saga[o]) = CompletedBefore[saga[o].currentOperation]
         /\ outbox[o][n].operation = saga[o].currentOperation
         /\ saga[o].compensatedSteps = <<>>
  <1>1. saga[o] \in Row /\ ConsistentForward(saga[o])
        /\ outbox[o][n].operation = saga[o].currentOperation
    BY AwaitedFacts DEF Consistent, NextOperation
  <1> QED
    BY <1>1, HeldForward DEF ConsistentForward, Row

LEMMA ReceiveRejectedMoves ==
  ASSUME OrdersOK, inbox \in [Orders -> SUBSET Nat],
         NEW o \in Orders, NEW n, ReceiveRejected(o, n)
  PROVE  Moves(o)
  <1> DEFINE f == FreshCounters(Cleared(saga[o]))
             failed == [f EXCEPT !.status = "FAILED"]
             turned == [f EXCEPT !.status = "COMPENSATING"]
  <1>1. /\ Arrives(o, n) /\ Awaited(o, n) /\ saga[o].status = "IN_PROGRESS"
        /\ outbox[o][n].operation # "FINALIZE_INVENTORY"
        /\ IF f.completedSteps = <<>>
           THEN saga' = [saga EXCEPT ![o] = failed]
           ELSE Dispatch(o, turned)
    BY DEF ReceiveRejected, Save
  <1>2. /\ saga[o] \in Row
        /\ f \in Row /\ f.currentOperation = saga[o].currentOperation
        /\ f.completedSteps = saga[o].completedSteps
        /\ f.compensatedSteps = saga[o].compensatedSteps
    BY RowFacts, FreshRow
  <1> HIDE DEF f
  <1>3. /\ failed.status = "FAILED" /\ Held(failed) = Held(saga[o])
        /\ turned \in Row /\ turned.status = "COMPENSATING" /\ Held(turned) = Held(saga[o])
        /\ turned.currentOperation = saga[o].currentOperation
        /\ turned.compensatedSteps = saga[o].compensatedSteps
    BY <1>2 DEF Row, Statuses, Active, Held
  <1> HIDE DEF failed, turned
  <1>4. /\ Held(saga[o]) = CompletedBefore[saga[o].currentOperation]
        /\ outbox[o][n].operation = saga[o].currentOperation
        /\ saga[o].compensatedSteps = <<>>
    BY <1>1, ForwardHeld
  <1>5. Held(saga[o]) # Steps /\ saga[o].currentOperation \in ForwardOperations
    BY <1>1, <1>2, <1>4, ForwardTables DEF Row
  <1>6. Held(saga[o]) = f.completedSteps
    BY <1>2, <1>4, HeldForward DEF Row
  <1>7. CASE f.completedSteps = <<>>
    BY <1>1, <1>3, <1>5, <1>6, <1>7 DEF Moves, RowStep, Rejects
  <1>8. CASE f.completedSteps # <<>>
    <2>1. ~Undone(turned)
      <3>1. UndoAfter[saga[o].currentOperation] # <<>>
        BY <1>1, <1>4, <1>5, <1>6, <1>8, Tables DEF ForwardOperations
      <3>2. UndoAfter[saga[o].currentOperation] \in Seq(StepNames)
        BY <1>5, Tables
      <3>3. Len(<<>>) = 0 /\ Len(UndoAfter[saga[o].currentOperation]) > 0
        BY <3>1, <3>2, EmptySeq
      <3> QED
        BY <1>3, <1>4, <3>3 DEF Undone
    <2>2. PICK t : /\ saga' = [saga EXCEPT ![o] = t]
                   /\ Held(t) = Held(turned) /\ t.status = "COMPENSATING"
      BY <1>1, <1>3, <1>8, <2>1, DispatchedRow DEF OrdersOK
    <2> QED
      BY <1>1, <1>3, <1>5, <1>6, <1>8, <2>2 DEF Moves, RowStep, Rejects
  <1> QED
    BY <1>7, <1>8

LEMMA ReceiveStepSucceededMoves ==
  ASSUME OrdersOK, inbox \in [Orders -> SUBSET Nat],
         NEW o \in Orders, NEW n, ReceiveStepSucceeded(o, n)
  PROVE  Moves(o)
  <1> DEFINE f == FreshCounters(Cleared(saga[o]))
             s == [f EXCEPT !.completedSteps = Append(@, StepFor[f.currentOperation]),
                            !.currentOperation = Successor[f.currentOperation]]
  <1>1. /\ Arrives(o, n) /\ Awaited(o, n) /\ saga[o].status = "IN_PROGRESS"
        /\ outbox[o][n].operation # "FINALIZE_INVENTORY"
        /\ Dispatch(o, s)
    BY DEF ReceiveStepSucceeded
  <1>2. /\ f \in Row /\ f.status = "IN_PROGRESS"
        /\ f.currentOperation = saga[o].currentOperation
        /\ f.completedSteps = saga[o].completedSteps
        /\ f.compensatedSteps = saga[o].compensatedSteps
    BY <1>1, RowFacts, FreshRow
  <1> HIDE DEF f
  <1>3. /\ Held(saga[o]) = CompletedBefore[f.currentOperation]
        /\ f.currentOperation # "FINALIZE_INVENTORY"
        /\ f.currentOperation \in ForwardOperations
        /\ f.compensatedSteps = <<>>
    BY <1>1, <1>2, ForwardHeld DEF Row
  <1>4. Held(saga[o]) = f.completedSteps
    BY <1>2, <1>3, HeldForward DEF Row
  <1>5. StepFor[f.currentOperation] \in StepNames
        /\ Successor[f.currentOperation] \in ForwardOperations
    BY <1>3, Tables
  <1>6. /\ s \in Row /\ s.status = "IN_PROGRESS" /\ s.compensatedSteps = <<>>
        /\ s.completedSteps = Append(f.completedSteps, StepFor[f.currentOperation])
    <2>1. Append(f.completedSteps, StepFor[f.currentOperation]) \in Seq(StepNames)
      BY <1>2, <1>5 DEF Row
    <2> QED
      BY <1>2, <1>3, <1>5, <2>1 DEF Row
  <1> HIDE DEF s
  <1>7. Held(s) = s.completedSteps
    BY <1>6, HeldForward DEF Row
  <1>8. PICK t : /\ saga' = [saga EXCEPT ![o] = t]
                 /\ Held(t) = Held(s) /\ t.status = "IN_PROGRESS"
    BY <1>1, <1>6, DispatchedRow DEF OrdersOK
  <1>9. /\ Held(saga[o]) # Steps
        /\ Steps[Len(Held(saga[o])) + 1] = StepFor[f.currentOperation]
    BY <1>3, ForwardTables
  <1> QED
    BY <1>1, <1>4, <1>6, <1>7, <1>8, <1>9 DEF Moves, RowStep, Advances

LEMMA ReceiveFinalizedMoves ==
  ASSUME OrdersOK, inbox \in [Orders -> SUBSET Nat],
         NEW o \in Orders, NEW n, ReceiveFinalized(o, n)
  PROVE  Moves(o)
  <1> DEFINE f == FreshCounters(Cleared(saga[o]))
             t == [f EXCEPT !.status = "COMPLETED", !.inventoryFinalized = TRUE]
  <1>1. /\ Arrives(o, n) /\ Awaited(o, n) /\ saga[o].status = "IN_PROGRESS"
        /\ outbox[o][n].operation = "FINALIZE_INVENTORY"
        /\ saga' = [saga EXCEPT ![o] = t]
    BY DEF ReceiveFinalized, Save
  <1>2. /\ saga[o] \in Row /\ f \in Row
        /\ f.completedSteps = saga[o].completedSteps
        /\ f.compensatedSteps = saga[o].compensatedSteps
    BY RowFacts, FreshRow
  <1> HIDE DEF f
  <1>3. t.status = "COMPLETED" /\ Held(t) = Held(saga[o])
    BY <1>2 DEF Row, Held
  <1> HIDE DEF t
  <1>4. Held(saga[o]) = Steps
    BY <1>1, <1>2, ForwardHeld, ForwardTables DEF Row
  <1> QED
    BY <1>1, <1>3, <1>4 DEF Moves, RowStep, Completes

(* Recovery repeats a command or hands the row over; it never moves it on.  *)
LEMMA RecoverClaimMoves ==
  ASSUME OrdersOK, NEW w \in Workers, NEW o \in Orders, Recover(w, o)
  PROVE  Moves(o)
  <1> DEFINE same(t) == t.status = saga[o].status /\ Held(t) = Held(saga[o])
  <1>1. saga[o] \in Row /\ saga \in [Orders -> Row]
    BY RowFacts DEF OrdersOK
  <1>2. CASE RecoverIntervene(w, o)
    <2> DEFINE t == [saga[o] EXCEPT !.interventionReason = RecoveryFault(o),
                                    !.leaseOwner = None]
    <2>1. saga' = [saga EXCEPT ![o] = t]
      BY <1>2 DEF RecoverIntervene, Intervene, Save
    <2>2. same(t)
      BY <1>1 DEF Row, Held
    <2> QED
      BY <2>1, <2>2 DEF Moves, RowStep, Keeps
  <1>3. CASE RecoverWait(w, o)
    <2> DEFINE t == [saga[o] EXCEPT !.leaseOwner = None]
    <2>1. saga' = [saga EXCEPT ![o] = t]
      BY <1>3 DEF RecoverWait, Save
    <2>2. same(t)
      BY <1>1 DEF Row, Held
    <2> QED
      BY <2>1, <2>2 DEF Moves, RowStep, Keeps
  <1>4. CASE RecoverResend(w, o)
    <2> DEFINE s == [saga[o] EXCEPT !.pendingMessageId = 0, !.recoveryAttempts = @ + 1]
    <2>1. Dispatch(o, s)
      BY <1>4 DEF RecoverResend
    <2>2. /\ s \in Row /\ s.status = saga[o].status
          /\ s.currentOperation = saga[o].currentOperation
          /\ s.completedSteps = saga[o].completedSteps
          /\ s.compensatedSteps = saga[o].compensatedSteps
      <3>1. saga[o].recoveryAttempts + 1 \in Nat /\ 0 \in Nat
        BY <1>1 DEF Row
      <3>2. s = [saga[o] EXCEPT !.pendingMessageId = 0,
                                !.recoveryAttempts = saga[o].recoveryAttempts + 1]
        BY <1>1 DEF Row
      <3> HIDE DEF s
      <3> QED
        BY <1>1, <3>1, <3>2 DEF Row
    <2> HIDE DEF s
    <2> QED
      BY <2>1, <2>2, SentAgainMoves
  <1> QED
    BY <1>2, <1>3, <1>4 DEF Recover

(* Claiming changes leases alone.                                           *)
LEMMA ClaimRecoveryKeeps ==
  ASSUME OrdersOK, NEW w \in Workers, NEW batch, ClaimRecovery(w, batch)
  PROVE  \A p \in Orders : Keeps(saga[p], saga'[p])
  <1> SUFFICES ASSUME NEW p \in Orders PROVE Keeps(saga[p], saga'[p])
    OBVIOUS
  <1>1. saga'[p] = saga[p] \/ saga'[p] = [saga[p] EXCEPT !.leaseOwner = w]
    BY DEF ClaimRecovery
  <1> QED
    BY <1>1, RowFacts DEF Keeps, Held, Row

-----------------------------------------------------------------------------
(* The refinement.                                                         *)

LEMMA InitIsAbstract == Init => Abstract!Init
  <1> SUFFICES ASSUME Init PROVE Abstract!Init
    OBVIOUS
  <1>1. \A o \in Orders : saga[o].status = "ABSENT" /\ Held(saga[o]) = <<>>
    <2> TAKE o \in Orders
    <2>1. /\ saga[o].status = "ABSENT"
          /\ saga[o].completedSteps = <<>> /\ saga[o].compensatedSteps = <<>>
      BY DEF Init, NewRow
    <2>2. <<>> \in Seq(StepNames)
      OBVIOUS
    <2> QED
      BY <2>1, <2>2, HeldForward
  <1> QED
    BY <1>1 DEF Abstract!Init

LEMMA NextIsAbstract == IInv /\ [Next]_vars => [Abstract!Next]_(Abstract!vars)
  <1> SUFFICES ASSUME IInv, [Next]_vars PROVE [Abstract!Next]_(Abstract!vars)
    OBVIOUS
  <1>1. OrdersOK /\ inbox \in [Orders -> SUBSET Nat] /\ saga \in [Orders -> Row]
    BY IInvParts DEF Others, OrdersOK
  <1>2. ASSUME saga' = saga PROVE [Abstract!Next]_(Abstract!vars)
    BY <1>2, KeptRowsAreAbstract DEF Keeps
  <1>3. ASSUME NEW o \in Orders, Moves(o) PROVE [Abstract!Next]_(Abstract!vars)
    BY <1>1, <1>3, RowStepIsAbstract DEF Moves
  <1>4. ASSUME NEW o \in Orders, Request(o) PROVE [Abstract!Next]_(Abstract!vars)
    BY <1>1, <1>3, <1>4, AcceptMoves, ConfirmPaymentMoves, ResumeMoves DEF Request
  <1>5. ASSUME NEW o \in Orders, NEW n \in DOMAIN outbox[o], Receive(o, n)
        PROVE  [Abstract!Next]_(Abstract!vars)
    <2>1. CASE ReceiveStale(o, n)
      BY <1>2, <2>1 DEF ReceiveStale
    <2> QED
      BY <1>1, <1>3, <1>5, <2>1, ReceiveCompensatedMoves, ReceiveRetryableMoves,
         ReceiveRejectedMoves, ReceiveStepSucceededMoves, ReceiveFinalizedMoves
         DEF Receive
  <1>6. ASSUME NEW w \in Workers, NEW o \in holding[w], RecoverClaim(w, o)
        PROVE  [Abstract!Next]_(Abstract!vars)
    <2>1. o \in Orders
      BY IInvParts DEF Others
    <2>2. CASE RecoverFenced(w, o)
      BY <1>2, <2>2 DEF RecoverFenced
    <2> QED
      BY <1>1, <1>3, <1>6, <2>1, <2>2, RecoverClaimMoves DEF RecoverClaim
  <1>7. ASSUME NEW w \in Workers, NEW batch \in SUBSET Claimable, ClaimRecovery(w, batch)
        PROVE  [Abstract!Next]_(Abstract!vars)
    BY <1>1, <1>7, ClaimRecoveryKeeps, KeptRowsAreAbstract
  <1>8. ASSUME \/ \E o \in Orders : \E n \in DOMAIN outbox[o] : Relay(o, n)
               \/ \E o \in Orders : PassTime(o)
               \/ \E w \in Workers : AbandonScan(w)
               \/ UNCHANGED vars
        PROVE  saga' = saga
    BY <1>8 DEF Relay, RelayPublish, RelayMark, PassTime, PassNextAttempt,
                PassResponseDeadline, PassLease, AbandonScan, vars
  <1> QED
    BY <1>2, <1>4, <1>5, <1>6, <1>7, <1>8 DEF Next

(* The rows of the orchestrator go through the steps of the abstract saga,  *)
(* whatever answers, recoveries, resumes and crashes interleave.            *)
THEOREM OrchestratorImplementsSaga == Spec => ImplementsSaga
  <1> QED
    BY InitIsAbstract, NextIsAbstract, Invariance, PTL DEF Spec, ImplementsSaga, Abstract!Spec

-----------------------------------------------------------------------------
(* No command is superseded before its answer, or its time, has come.      *)

(* What NoPrematureResend asks of one order in one step.                    *)
InTime(o) ==
  LET n == saga[o].pendingMessageId
  IN n # 0 /\ saga'[o].pendingMessageId # n =>
       \/ n \in inbox'[o]
       \/ outbox[o][n].delivery = "published" /\ o \in overdue

LEMMA PendingFacts ==
  ASSUME OrdersOK, NEW o \in Orders, saga[o].pendingMessageId # 0
  PROVE  /\ saga[o].status \in Active
         /\ saga[o].interventionReason # None =>
              /\ outbox[o][saga[o].pendingMessageId].delivery = "published"
              /\ o \in overdue
  BY DEF OrdersOK, OrderInv, Pending

LEMMA RequestInTime ==
  ASSUME OrdersOK, NEW o \in Orders, Request(o)
  PROVE  \A p \in Orders : InTime(p)
  <1> SUFFICES ASSUME NEW p \in Orders PROVE InTime(p)
    OBVIOUS
  <1>1. CASE p # o
    BY <1>1 DEF Request, Accept, ConfirmPayment, Resume, Dispatch, Save, OrdersOK, InTime
  <1>2. CASE p = o
    <2>1. saga[o].status \in {"ABSENT", "PENDING_PAYMENT"} => InTime(o)
      BY PendingFacts DEF Active, InTime
    <2>2. saga[o].pendingMessageId = 0 \/ saga[o].interventionReason # None => InTime(o)
      BY PendingFacts DEF InTime
    <2> QED
      BY <1>2, <2>1, <2>2 DEF Request, Accept, ConfirmPayment, Resume
  <1> QED
    BY <1>1, <1>2

LEMMA ReceiveInTime ==
  ASSUME OrdersOK, inbox \in [Orders -> SUBSET Nat],
         NEW o \in Orders, NEW n \in DOMAIN outbox[o], Receive(o, n)
  PROVE  \A p \in Orders : InTime(p)
  <1> SUFFICES ASSUME NEW p \in Orders PROVE InTime(p)
    OBVIOUS
  <1>1. CASE ReceiveStale(o, n)
    BY <1>1 DEF ReceiveStale, InTime
  <1>2. CASE ~ReceiveStale(o, n)
    <2>1. Awaited(o, n) /\ n \in inbox'[o]
      BY <1>2 DEF Receive, ReceiveCompensated, ReceiveRetryable, ReceiveRejected,
                  ReceiveStepSucceeded, ReceiveFinalized, Arrives
    <2>2. CASE p # o
      BY <1>2, <2>2 DEF Receive, ReceiveCompensated, ReceiveRetryable, ReceiveRejected,
                        ReceiveStepSucceeded, ReceiveFinalized, Intervene, Dispatch, Save,
                        OrdersOK, InTime
    <2>3. CASE p = o
      BY <2>1, <2>3 DEF Awaited, InTime
    <2> QED
      BY <2>2, <2>3
  <1> QED
    BY <1>1, <1>2

LEMMA RecoverInTime ==
  ASSUME OrdersOK, NEW w \in Workers, NEW o \in Orders, RecoverClaim(w, o)
  PROVE  \A p \in Orders : InTime(p)
  <1> SUFFICES ASSUME NEW p \in Orders PROVE InTime(p)
    OBVIOUS
  <1>1. CASE p # o
    BY <1>1 DEF RecoverClaim, Recover, RecoverFenced, RecoverIntervene, RecoverWait,
                RecoverResend, Intervene, Dispatch, Save, OrdersOK, InTime
  <1>2. CASE p = o
    <2>1. CASE RecoverFenced(w, o)
      BY <2>1 DEF RecoverFenced, InTime
    <2>2. CASE RecoverIntervene(w, o) \/ RecoverWait(w, o)
      <3>1. saga[o] \in Row
        BY RowFacts
      <3>2. saga'[o].pendingMessageId = saga[o].pendingMessageId
        BY <2>2, <3>1 DEF RecoverIntervene, RecoverWait, Intervene, Save, OrdersOK, Row
      <3> QED
        BY <1>2, <3>2 DEF InTime
    <2>3. CASE RecoverResend(w, o)
      <3>1. /\ saga[o].pendingMessageId \in DOMAIN outbox[o]
            /\ ~AwaitsDelivery(o)
        BY <2>3, LeasedFacts DEF RecoverResend
      <3> QED
        BY <1>2, <3>1 DEF AwaitsDelivery, InTime
    <2> QED
      BY <1>2, <2>1, <2>2, <2>3 DEF RecoverClaim, Recover
  <1> QED
    BY <1>1, <1>2

(* Neither a fenced worker, a repeated POST nor a stale result sends a      *)
(* second command before the first was answered or its time was up.         *)
THEOREM ResendsAreInTime == Spec => NoPrematureResend
  <1>1. IInv /\ [Next]_vars => [\A o \in Orders : InTime(o)]_vars
    <2> SUFFICES ASSUME IInv, Next PROVE \A o \in Orders : InTime(o)
      OBVIOUS
    <2>1. OrdersOK /\ inbox \in [Orders -> SUBSET Nat] /\ holding \in [Workers -> SUBSET Orders]
      BY IInvParts DEF Others
    <2>2. ASSUME saga' = saga PROVE \A o \in Orders : InTime(o)
      BY <2>2 DEF InTime
    <2>3. ASSUME NEW w \in Workers, NEW batch \in SUBSET Claimable, ClaimRecovery(w, batch)
          PROVE  \A o \in Orders : InTime(o)
      <3>1. \A o \in Orders : saga'[o].pendingMessageId = saga[o].pendingMessageId
        <4> TAKE o \in Orders
        <4>1. saga[o] \in Row
          BY <2>1 DEF OrdersOK
        <4> QED
          BY <2>3, <4>1 DEF ClaimRecovery, Row
      <3> QED
        BY <3>1 DEF InTime
    <2>4. ASSUME \/ \E o \in Orders : \E n \in DOMAIN outbox[o] : Relay(o, n)
                 \/ \E o \in Orders : PassTime(o)
                 \/ \E w \in Workers : AbandonScan(w)
          PROVE  saga' = saga
      BY <2>4 DEF Relay, RelayPublish, RelayMark, PassTime, PassNextAttempt,
                  PassResponseDeadline, PassLease, AbandonScan
    <2>5. ASSUME NEW w \in Workers, NEW o \in holding[w], RecoverClaim(w, o)
          PROVE  \A p \in Orders : InTime(p)
      BY <2>1, <2>5, RecoverInTime
    <2> QED
      BY <2>1, <2>2, <2>3, <2>4, <2>5, RequestInTime, ReceiveInTime DEF Next
  <1>2. [\A o \in Orders : InTime(o)]_vars
          <=> [\A o \in Orders :
                 LET n == saga[o].pendingMessageId
                 IN n # 0 /\ saga'[o].pendingMessageId # n =>
                      \/ n \in inbox'[o]
                      \/ outbox[o][n].delivery = "published" /\ o \in overdue]_vars
    BY DEF InTime
  <1> QED
    BY <1>1, <1>2, Invariance, PTL DEF Spec, NoPrematureResend
-----------------------------------------------------------------------------
(* The budget of attempts: how often an operation was sent.                *)

LEMMA NewRowIsRow ==
  ASSUME NEW method \in Methods, NEW status \in {"PENDING_PAYMENT", "IN_PROGRESS"}
  PROVE  NewRow(status, method) \in Row
  <1>1. method \in PaymentMethods
    BY ConstantsAssumption
  <1> QED
    BY <1>1 DEF NewRow, Row, Statuses, Active, ForwardOperations, PaymentMethods

(* Rows that are as far along.                                             *)
SameProgress(s, t) ==
  /\ t.status = s.status /\ t.currentOperation = s.currentOperation
  /\ t.completedSteps = s.completedSteps /\ t.compensatedSteps = s.compensatedSteps

Places(out, operation) == {n \in DOMAIN out : out[n].operation = operation}
Times(out, operation) == Cardinality(Places(out, operation))

(* The operations a saga may come to, but has not come to yet.              *)
YetToCome(s) ==
  CASE s.status \in {"ABSENT", "PENDING_PAYMENT"} -> Operations
    [] s.status = "IN_PROGRESS" -> Operations \ UpTo[s.currentOperation]
    [] s.status = "COMPENSATING" ->
         {ReverseOperation[UndoAfter[s.currentOperation][i]] :
            i \in (Len(s.compensatedSteps) + 2)..Len(UndoAfter[s.currentOperation])}
    [] OTHER -> {}

(* Beside the budget itself: what the cycle that is open has spent of it on *)
(* the operation in hand, and that nothing was spent on those to come.      *)
Budget(s, out, cycles) ==
  /\ \A operation \in Operations : Times(out, operation) <= RetryLimit * (1 + cycles)
  /\ s.status \in Active /\ NextOperation(s) # None =>
       Times(out, NextOperation(s)) <= RetryLimit * cycles + s.brokerAttempts
  /\ \A operation \in YetToCome(s) : Times(out, operation) = 0

LEMMA TimesType ==
  ASSUME NEW out \in Seq(Command), NEW operation
  PROVE  IsFiniteSet(Places(out, operation)) /\ Times(out, operation) \in Nat
  <1>1. DOMAIN out = 1..Len(out) /\ Len(out) \in Int /\ 1 \in Int
    BY LenProperties
  <1>2. IsFiniteSet(DOMAIN out)
    BY <1>1, FS_Interval
  <1>3. Places(out, operation) \in SUBSET DOMAIN out
    BY DEF Places
  <1>4. IsFiniteSet(Places(out, operation))
    BY <1>2, <1>3, FS_Subset
  <1> QED
    BY <1>4, FS_CardinalityType DEF Times

LEMMA AppendTimes ==
  ASSUME NEW out \in Seq(Command), NEW command \in Command, NEW operation
  PROVE  Times(Append(out, command), operation) =
           IF command.operation = operation THEN Times(out, operation) + 1
                                            ELSE Times(out, operation)
  <1> DEFINE more == Append(out, command)
             last == Len(out) + 1
  <1>1. /\ Len(out) \in Nat /\ DOMAIN out = 1..Len(out)
        /\ DOMAIN more = 1..last
        /\ more[last] = command
        /\ \A n \in 1..Len(out) : more[n] = out[n]
    BY LenProperties, AppendProperties
  <1> HIDE DEF more
  <1>2. \A n : n \in 1..last <=> n \in 1..Len(out) \/ n = last
    BY <1>1
  <1>3. last \notin 1..Len(out)
    BY <1>1
  <1> HIDE DEF last
  <1>4. CASE command.operation = operation
    <2>1. Places(more, operation) = Places(out, operation) \cup {last}
      BY <1>1, <1>2, <1>4 DEF Places
    <2>2. last \notin Places(out, operation)
      BY <1>1, <1>3 DEF Places
    <2> QED
      BY <1>4, <2>1, <2>2, TimesType, FS_AddElement DEF Times, more
  <1>5. CASE command.operation # operation
    <2>1. Places(more, operation) = Places(out, operation)
      BY <1>1, <1>2, <1>5 DEF Places
    <2> QED
      BY <1>5, <2>1 DEF Times, more
  <1> QED
    BY <1>4, <1>5

(* The operation in hand is not one of those to come.                      *)
LEMMA NextHasCome ==
  ASSUME NEW s \in Row, s.status \in Active, NextOperation(s) # None
  PROVE  NextOperation(s) \notin YetToCome(s)
  <1>1. CASE s.status = "IN_PROGRESS"
    BY <1>1, UpToTable DEF NextOperation, YetToCome, Row
  <1>2. CASE s.status = "COMPENSATING"
    <2> DEFINE u == UndoAfter[s.currentOperation]
               k == Len(s.compensatedSteps)
    <2>1. k \in Nat /\ Len(u) \in Nat /\ k < Len(u)
      BY <1>2, Tables DEF NextOperation, Undone, Row
    <2>2. YetToCome(s) = {ReverseOperation[u[i]] : i \in (k + 2)..Len(u)}
          /\ NextOperation(s) = ReverseOperation[u[k + 1]]
      BY <1>2 DEF YetToCome, NextOperation, NextUndo
    <2>3. s.currentOperation \in {"RESERVE_INVENTORY", "CREATE_SHIPMENT"}
      <3>1. u # <<>>
        BY <2>1
      <3> QED
        BY <3>1, Tables DEF Row
    <2> HIDE DEF k
    <2>4. CASE s.currentOperation = "RESERVE_INVENTORY"
      <3>1. Len(u) = 1
        BY <2>4 DEF UndoAfter
      <3>2. (k + 2)..Len(u) = {}
        BY <2>1, <3>1
      <3> QED
        BY <2>2, <3>2
    <2>5. CASE s.currentOperation = "CREATE_SHIPMENT"
      <3>1. Len(u) = 2 /\ u[1] = "INVENTORY" /\ u[2] = "PAYMENT"
        BY <2>5 DEF UndoAfter
      <3> HIDE DEF u
      <3>2. CASE k = 0
        <4>1. \A i \in (k + 2)..Len(u) : i = 2
          BY <3>1, <3>2
        <4>2. u[k + 1] = "INVENTORY"
          BY <3>1, <3>2
        <4> QED
          BY <2>2, <3>1, <4>1, <4>2 DEF ReverseOperation
      <3>3. CASE k = 1
        <4>1. (k + 2)..Len(u) = {}
          BY <3>1, <3>3
        <4> QED
          BY <2>2, <4>1
      <3> QED
        BY <2>1, <3>1, <3>2, <3>3
    <2> QED
      BY <2>3, <2>4, <2>5
  <1> QED
    BY <1>1, <1>2 DEF Active

LEMMA Products ==
  ASSUME NEW cycles \in Nat
  PROVE  /\ RetryLimit * cycles \in Nat
         /\ RetryLimit * (1 + cycles) = RetryLimit * cycles + RetryLimit
         /\ RetryLimit * (1 + cycles) \in Nat
  BY ConstantsAssumption

(* A row as far along, in the same cycle of attempts or a new one.          *)
LEMMA KeptBudget ==
  ASSUME NEW s \in Row, NEW t \in Row, SameProgress(s, t), NEW out \in Seq(Command),
         NEW cycles \in Nat, Budget(s, out, cycles),
         NEW more \in {cycles, cycles + 1},
         more = cycles => t.brokerAttempts = s.brokerAttempts
  PROVE  Budget(t, out, more)
  <1>1. NextOperation(t) = NextOperation(s) /\ YetToCome(t) = YetToCome(s)
    BY DEF SameProgress, NextOperation, Undone, NextUndo, YetToCome
  <1>2. CASE more = cycles
    BY <1>1, <1>2 DEF Budget, SameProgress
  <1>3. CASE more = cycles + 1
    <2>1. ASSUME NEW operation \in Operations
          PROVE  /\ Times(out, operation) <= RetryLimit * more
                 /\ Times(out, operation) <= RetryLimit * (1 + more)
      <3>1. Times(out, operation) \in Nat /\ Times(out, operation) <= RetryLimit * (1 + cycles)
        BY TimesType DEF Budget
      <3>2. more = 1 + cycles /\ more \in Nat
        BY <1>3
      <3>3. RetryLimit * (1 + cycles) = RetryLimit * more
        BY <3>2
      <3>4. /\ RetryLimit * more \in Nat /\ RetryLimit \in Nat
            /\ RetryLimit * (1 + more) = RetryLimit * more + RetryLimit
        BY <3>2, Products, ConstantsAssumption
      <3> DEFINE spent == Times(out, operation)
                 base == RetryLimit * more
                 next == RetryLimit * (1 + more)
      <3>5. spent \in Nat /\ spent <= base /\ base \in Nat /\ next = base + RetryLimit
        BY <3>1, <3>3, <3>4
      <3> HIDE DEF spent, base, next
      <3>6. spent <= base /\ spent <= next
        BY <3>4, <3>5
      <3> QED
        BY <3>6 DEF spent, base, next
    <2>2. NextOperation(t) # None => NextOperation(t) \in Operations
      BY NextIsOperation DEF Row, ProgressTyped
    <2>3. ASSUME NEW operation \in Operations
          PROVE  Times(out, operation) <= RetryLimit * more + t.brokerAttempts
      <3> DEFINE spent == Times(out, operation)
                 base == RetryLimit * more
                 used == t.brokerAttempts
      <3>1. spent \in Nat /\ base \in Nat /\ used \in Nat /\ spent <= base
        BY <1>3, <2>1, Products, TimesType DEF Row
      <3> HIDE DEF spent, base, used
      <3>2. spent <= base + used
        BY <3>1
      <3> QED
        BY <3>2 DEF spent, base, used
    <2>4. NextOperation(t) # None =>
            Times(out, NextOperation(t)) <= RetryLimit * more + t.brokerAttempts
      BY <2>2, <2>3
    <2> QED
      BY <1>1, <2>1, <2>4 DEF Budget
  <1> QED
    BY <1>2, <1>3

(* A row that has come to an operation on which nothing has been spent.     *)
LEMMA FreshBudget ==
  ASSUME NEW s, NEW t \in Row, NEW out \in Seq(Command), NEW cycles \in Nat,
         Budget(s, out, cycles),
         NextOperation(t) # None => NextOperation(t) \in YetToCome(s),
         YetToCome(t) \subseteq YetToCome(s)
  PROVE  Budget(t, out, cycles)
  <1>1. RetryLimit * cycles + t.brokerAttempts >= 0
    <2> DEFINE base == RetryLimit * cycles
    <2>1. base \in Nat /\ t.brokerAttempts \in Nat
      BY Products DEF Row
    <2> HIDE DEF base
    <2>2. base + t.brokerAttempts >= 0
      BY <2>1
    <2> QED
      BY <2>2 DEF base
  <1> QED
    BY <1>1 DEF Budget

LEMMA EndedBudget ==
  ASSUME NEW s, NEW t, t.status \in Terminal, NEW out, NEW cycles, Budget(s, out, cycles)
  PROVE  Budget(t, out, cycles)
  BY DEF Budget, YetToCome, Terminal, Active

LEMMA SentBudget ==
  ASSUME NEW s \in Row, s.status \in Active, NextOperation(s) # None,
         s.brokerAttempts < RetryLimit,
         NEW out \in Seq(Command), NEW cycles \in Nat, Budget(s, out, cycles),
         NEW command \in Command, command.operation = NextOperation(s),
         NEW t, SameProgress(s, t), t.brokerAttempts = s.brokerAttempts + 1
  PROVE  Budget(t, Append(out, command), cycles)
  <1> DEFINE operation == NextOperation(s)
  <1>1. NextOperation(t) = operation /\ YetToCome(t) = YetToCome(s)
    BY DEF SameProgress, NextOperation, Undone, NextUndo, YetToCome
  <1>2. /\ operation \in Operations /\ operation \notin YetToCome(s)
        /\ operation # None /\ command.operation = operation
    BY NextIsOperation, NextHasCome DEF Row, ProgressTyped
  <1>3. Times(out, operation) <= RetryLimit * cycles + s.brokerAttempts
    BY DEF Budget
  <1> HIDE DEF operation
  <1>4. \A other : Times(Append(out, command), other) =
          IF other = operation THEN Times(out, other) + 1 ELSE Times(out, other)
    BY <1>2, AppendTimes
  <1> DEFINE spent == Times(out, operation)
             now == Times(Append(out, command), operation)
             base == RetryLimit * cycles
             whole == RetryLimit * (1 + cycles)
             used == s.brokerAttempts
             usedNow == t.brokerAttempts
  <1>5. /\ spent \in Nat /\ used \in Nat /\ RetryLimit \in Nat /\ base \in Nat
        /\ whole = base + RetryLimit
        /\ spent <= base + used
        /\ now = spent + 1 /\ usedNow = used + 1 /\ used < RetryLimit
    BY <1>3, <1>4, TimesType, Products, ConstantsAssumption DEF Row
  <1> HIDE DEF spent, now, base, whole, used, usedNow
  <1>6. now <= base + usedNow
    BY <1>5
  <1>7. now <= whole
    BY <1>5
  <1>8. \A other \in Operations : Times(Append(out, command), other) <= RetryLimit * (1 + cycles)
    BY <1>4, <1>7 DEF Budget, now, whole
  <1>9. \A other \in YetToCome(t) : Times(Append(out, command), other) = 0
    BY <1>1, <1>2, <1>4 DEF Budget
  <1> QED
    BY <1>1, <1>6, <1>8, <1>9 DEF Budget, now, base, usedNow

(* A handler hands dispatch() a row that has attempts left.                 *)
Hands(o, s) ==
  /\ Dispatch(o, s)
  /\ s \in Row
  /\ s.status \in Active
  /\ s.brokerAttempts < RetryLimit
  /\ Budget(s, outbox[o], resumes'[o])

LEMMA DispatchSpends ==
  ASSUME OrdersOK, NEW o \in Orders, resumes'[o] \in Nat, NEW s, Hands(o, s)
  PROVE  /\ Budget(saga'[o], outbox'[o], resumes'[o])
         /\ \A p \in Orders \ {o} : saga'[p] = saga[p] /\ outbox'[p] = outbox[p]
  <1>1. /\ saga \in [Orders -> Row] /\ outbox \in [Orders -> Seq(Command)]
        /\ outbox[o] \in Seq(Command)
        /\ s \in Row /\ s.status \in Active /\ s.brokerAttempts < RetryLimit
        /\ Dispatch(o, s) /\ Budget(s, outbox[o], resumes'[o])
    BY DEF OrdersOK, Hands
  <1>2. \A p \in Orders \ {o} : saga'[p] = saga[p] /\ outbox'[p] = outbox[p]
    BY <1>1 DEF Dispatch, Save
  <1>3. CASE NextOperation(s) = None
    <2> DEFINE t == [s EXCEPT !.status = "FAILED", !.pendingMessageId = 0, !.leaseOwner = None]
    <2>1. saga'[o] = t /\ outbox' = outbox
      BY <1>1, <1>3 DEF Dispatch, Save
    <2>2. t.status \in Terminal
      BY <1>1 DEF Row, Terminal
    <2> HIDE DEF t
    <2> QED
      BY <1>1, <1>2, <2>1, <2>2, EndedBudget
  <1>4. CASE NextOperation(s) # None
    <2> DEFINE t == [s EXCEPT !.pendingMessageId = Len(outbox[o]) + 1,
                              !.brokerAttempts = @ + 1,
                              !.leaseOwner = None]
               command == [operation |-> NextOperation(s), delivery |-> "queued"]
    <2>1. saga'[o] = t /\ outbox'[o] = Append(outbox[o], command)
      BY <1>1, <1>4 DEF Dispatch
    <2>2. SameProgress(s, t) /\ t.brokerAttempts = s.brokerAttempts + 1
      BY <1>1 DEF Row, SameProgress
    <2>3. command \in Command /\ command.operation = NextOperation(s)
      BY <1>1, <1>4, NextIsOperation DEF Command, Row, ProgressTyped
    <2> HIDE DEF t, command
    <2> QED
      BY <1>1, <1>2, <1>4, <2>1, <2>2, <2>3, SentBudget
  <1> QED
    BY <1>3, <1>4

(* What a handler leaves of the budget of the order it locks.               *)
Spends(o) ==
  /\ Budget(saga'[o], outbox'[o], resumes'[o])
  /\ \A p \in Orders \ {o} :
       saga'[p] = saga[p] /\ outbox'[p] = outbox[p] /\ resumes'[p] = resumes[p]

LEMMA RowTypes ==
  ASSUME OrdersOK, Others, NEW o \in Orders
  PROVE  /\ saga \in [Orders -> Row] /\ saga[o] \in Row
         /\ outbox \in [Orders -> Seq(Command)] /\ outbox[o] \in Seq(Command)
         /\ resumes \in [Orders -> 0..MaxResumes] /\ resumes[o] \in Nat
         /\ RetryLimit \in Nat \ {0}
  BY ConstantsAssumption DEF OrdersOK, Others

LEMMA HandsSpends ==
  ASSUME OrdersOK, Others, NEW o \in Orders, NEW s, Hands(o, s), resumes' = resumes
  PROVE  Spends(o)
  BY RowTypes, DispatchSpends DEF Spends

LEMMA SaveSpends ==
  ASSUME OrdersOK, Others, NEW o \in Orders, NEW t,
         saga' = [saga EXCEPT ![o] = t], outbox' = outbox, resumes' = resumes,
         Budget(t, outbox[o], resumes[o])
  PROVE  Spends(o)
  BY RowTypes DEF Spends

LEMMA AcceptSpends ==
  ASSUME OrdersOK, Others, NEW o \in Orders, NEW method \in Methods, Accept(o, method),
         Budget(saga[o], outbox[o], resumes[o])
  PROVE  Spends(o)
  <1> DEFINE row(status) == NewRow(status, method)
  <1>1. saga[o].status = "ABSENT" /\ resumes' = resumes
    BY DEF Accept
  <1>2. ASSUME NEW status \in {"PENDING_PAYMENT", "IN_PROGRESS"}
        PROVE  /\ row(status) \in Row /\ row(status).status = status
               /\ row(status).brokerAttempts = 0
               /\ Budget(row(status), outbox[o], resumes[o])
    <2>1. row(status) \in Row
      BY NewRowIsRow
    <2>2. /\ row(status).status = status /\ row(status).brokerAttempts = 0
          /\ row(status).currentOperation = "CHARGE_PAYMENT"
      BY DEF NewRow
    <2>3. YetToCome(saga[o]) = Operations
      BY <1>1 DEF YetToCome
    <2> HIDE DEF row
    <2>4. NextOperation(row(status)) \in Operations
      BY <2>2 DEF NextOperation, Operations, ForwardOperations
    <2>5. YetToCome(row(status)) \subseteq Operations
      BY <2>2 DEF YetToCome
    <2> QED
      BY <2>1, <2>2, <2>3, <2>4, <2>5, RowTypes, FreshBudget
  <1> HIDE DEF row
  <1>3. CASE method = "BANK_TRANSFER"
    <2>1. saga' = [saga EXCEPT ![o] = row("PENDING_PAYMENT")] /\ outbox' = outbox
      BY <1>3 DEF Accept, row
    <2> QED
      BY <1>1, <1>2, <2>1, SaveSpends
  <1>4. CASE method # "BANK_TRANSFER"
    <2>1. Dispatch(o, row("IN_PROGRESS"))
      BY <1>4 DEF Accept, row
    <2>2. Hands(o, row("IN_PROGRESS"))
      BY <1>1, <1>2, <2>1, RowTypes DEF Hands, Active
    <2> QED
      BY <1>1, <2>2, HandsSpends
  <1> QED
    BY <1>3, <1>4

LEMMA ConfirmPaymentSpends ==
  ASSUME OrdersOK, Others, NEW o \in Orders, ConfirmPayment(o),
         Budget(saga[o], outbox[o], resumes[o])
  PROVE  Spends(o)
  <1> DEFINE s == [saga[o] EXCEPT !.status = "IN_PROGRESS"]
  <1>1. saga[o].status = "PENDING_PAYMENT" /\ Dispatch(o, s) /\ resumes' = resumes
    BY DEF ConfirmPayment
  <1>2. /\ s \in Row /\ s.status = "IN_PROGRESS"
        /\ s.currentOperation = saga[o].currentOperation
        /\ s.brokerAttempts = saga[o].brokerAttempts
    BY RowTypes DEF Row, Statuses, Active
  <1>3. saga[o].brokerAttempts = 0 /\ saga[o].currentOperation \in ForwardOperations
    BY <1>1, RowTypes DEF OrdersOK, OrderInv, Counters, Row
  <1> HIDE DEF s
  <1>4. /\ YetToCome(saga[o]) = Operations /\ YetToCome(s) \subseteq Operations
        /\ NextOperation(s) \in Operations
    BY <1>1, <1>2, <1>3 DEF YetToCome, NextOperation, Operations
  <1>5. Budget(s, outbox[o], resumes[o])
    BY <1>2, <1>4, RowTypes, FreshBudget
  <1>6. Hands(o, s)
    BY <1>1, <1>2, <1>3, <1>5, RowTypes DEF Hands, Active
  <1> QED
    BY <1>1, <1>6, HandsSpends

LEMMA ResumeSpends ==
  ASSUME OrdersOK, Others, NEW o \in Orders, Resume(o),
         Budget(saga[o], outbox[o], resumes[o])
  PROVE  Spends(o)
  <1> DEFINE s == [FreshCounters(saga[o]) EXCEPT !.interventionReason = None]
  <1>1. /\ Dispatch(o, s) /\ Consistent(saga[o])
        /\ resumes' = [resumes EXCEPT ![o] = @ + 1]
    BY DEF Resume
  <1>2. s \in Row /\ SameProgress(saga[o], s) /\ s.brokerAttempts = 0
    BY RowTypes DEF FreshCounters, Row, SameProgress
  <1>3. s.status \in Active
    BY <1>1, <1>2 DEF Consistent, ConsistentForward, Active, SameProgress
  <1> HIDE DEF s
  <1>4. resumes'[o] = resumes[o] + 1 /\ resumes'[o] \in Nat /\ resumes'[o] # resumes[o]
    BY <1>1, RowTypes
  <1>5. Budget(s, outbox[o], resumes'[o])
    BY <1>2, <1>4, RowTypes, KeptBudget
  <1>6. Hands(o, s)
    BY <1>1, <1>2, <1>3, <1>5, RowTypes DEF Hands
  <1>7. \A p \in Orders \ {o} : resumes'[p] = resumes[p]
    BY <1>1, RowTypes
  <1> QED
    BY <1>4, <1>6, <1>7, DispatchSpends DEF Spends

LEMMA SuccessorIsNew ==
  ASSUME NEW operation \in ForwardOperations, operation # "FINALIZE_INVENTORY"
  PROVE  Successor[operation] \in Operations \ UpTo[operation]
  BY DEF Successor, UpTo, Operations, ForwardOperations

LEMMA RetryableSpends ==
  ASSUME OrdersOK, Others, NEW o \in Orders, NEW n, ReceiveRetryable(o, n),
         Budget(saga[o], outbox[o], resumes[o])
  PROVE  Spends(o)
  <1> DEFINE s == Cleared(saga[o])
             t == [s EXCEPT !.interventionReason = "COMMAND_RETRIES_EXHAUSTED",
                            !.leaseOwner = None]
  <1>1. /\ Arrives(o, n) /\ Awaited(o, n) /\ resumes' = resumes
        /\ IF saga[o].brokerAttempts >= RetryLimit
           THEN saga' = [saga EXCEPT ![o] = t] /\ outbox' = outbox
           ELSE Dispatch(o, s)
    BY DEF ReceiveRetryable, Arrives, Intervene, Save
  <1>2. /\ s \in Row /\ SameProgress(saga[o], s)
        /\ s.brokerAttempts = saga[o].brokerAttempts
    BY RowTypes, ClearedRow DEF SameProgress
  <1>3. saga[o].status \in Active
    BY <1>1, AwaitedFacts DEF Others
  <1> HIDE DEF s
  <1>4. t \in Row /\ SameProgress(saga[o], t) /\ t.brokerAttempts = saga[o].brokerAttempts
    BY <1>2 DEF Row, Reasons, SameProgress
  <1> HIDE DEF t
  <1>5. /\ Budget(s, outbox[o], resumes[o])
        /\ Budget(t, outbox[o], resumes[o])
    BY <1>2, <1>4, RowTypes, KeptBudget
  <1>6. CASE saga[o].brokerAttempts >= RetryLimit
    BY <1>1, <1>5, <1>6, SaveSpends
  <1>7. CASE ~(saga[o].brokerAttempts >= RetryLimit)
    <2>1. s.brokerAttempts < RetryLimit
      BY <1>2, <1>7, RowTypes DEF Row
    <2>2. Hands(o, s)
      BY <1>1, <1>2, <1>3, <1>5, <1>7, <2>1 DEF Hands, SameProgress
    <2> QED
      BY <1>1, <2>2, HandsSpends
  <1> QED
    BY <1>6, <1>7

(* A row that goes on from an answered command, with fresh counters.        *)
LEMMA FreshSpends ==
  ASSUME OrdersOK, Others, NEW o \in Orders, Budget(saga[o], outbox[o], resumes[o]),
         resumes' = resumes,
         NEW s \in Row, Dispatch(o, s), s.status \in Active, s.brokerAttempts = 0,
         NextOperation(s) # None => NextOperation(s) \in YetToCome(saga[o]),
         YetToCome(s) \subseteq YetToCome(saga[o])
  PROVE  Spends(o)
  <1>1. Budget(s, outbox[o], resumes[o])
    BY RowTypes, FreshBudget
  <1>2. Hands(o, s)
    BY <1>1, RowTypes DEF Hands
  <1> QED
    BY <1>2, HandsSpends

LEMMA StepSucceededSpends ==
  ASSUME OrdersOK, Others, NEW o \in Orders, NEW n, ReceiveStepSucceeded(o, n),
         Budget(saga[o], outbox[o], resumes[o])
  PROVE  Spends(o)
  <1> DEFINE f == FreshCounters(Cleared(saga[o]))
             cur == saga[o].currentOperation
             s == [f EXCEPT !.completedSteps = Append(@, StepFor[f.currentOperation]),
                            !.currentOperation = Successor[f.currentOperation]]
  <1>1. /\ Arrives(o, n) /\ Awaited(o, n) /\ saga[o].status = "IN_PROGRESS"
        /\ outbox[o][n].operation # "FINALIZE_INVENTORY"
        /\ Dispatch(o, s) /\ resumes' = resumes
    BY DEF ReceiveStepSucceeded, Arrives
  <1>2. /\ f \in Row /\ f.status = "IN_PROGRESS" /\ f.brokerAttempts = 0
        /\ f.currentOperation = cur
    BY <1>1, RowTypes, FreshRow
  <1>3. cur \in ForwardOperations /\ cur # "FINALIZE_INVENTORY"
    BY <1>1, RowTypes, ForwardHeld DEF Others, Row
  <1> HIDE DEF f, cur
  <1>4. /\ StepFor[cur] \in StepNames /\ Successor[cur] \in ForwardOperations
        /\ Successor[cur] \in Operations \ UpTo[cur]
        /\ UpTo[cur] \subseteq UpTo[Successor[cur]]
    BY <1>3, Tables, UpToTable, SuccessorIsNew
  <1>5. /\ s \in Row /\ s.status = "IN_PROGRESS" /\ s.brokerAttempts = 0
        /\ s.currentOperation = Successor[cur]
    <2>1. Append(f.completedSteps, StepFor[cur]) \in Seq(StepNames)
      BY <1>2, <1>4 DEF Row
    <2> QED
      BY <1>2, <1>4, <2>1 DEF Row
  <1> HIDE DEF s
  <1>6. /\ YetToCome(saga[o]) = Operations \ UpTo[cur]
        /\ YetToCome(s) = Operations \ UpTo[Successor[cur]]
        /\ NextOperation(s) = Successor[cur]
    BY <1>1, <1>5 DEF YetToCome, NextOperation, cur
  <1> QED
    BY <1>1, <1>4, <1>5, <1>6, FreshSpends DEF Active

(* What is undone, and how, once an order turns around.                     *)
LEMMA UndoingComes ==
  ASSUME NEW s \in Row, s.status = "COMPENSATING"
  PROVE  /\ YetToCome(s) \subseteq CompensatingOperations
         /\ NextOperation(s) # None => NextOperation(s) \in CompensatingOperations
  <1> DEFINE u == UndoAfter[s.currentOperation]
             k == Len(s.compensatedSteps)
  <1>1. u \in Seq(StepNames) /\ Len(u) \in Nat /\ k \in Nat
    BY Tables DEF Row
  <1>2. \A i \in (k + 2)..Len(u) : u[i] \in StepNames
    <2>1. \A i \in 1..Len(u) : u[i] \in StepNames
      BY <1>1, ElementOfSeq
    <2>2. \A i \in (k + 2)..Len(u) : i \in 1..Len(u)
      BY <1>1
    <2> QED
      BY <2>1, <2>2
  <1>3. YetToCome(s) = {ReverseOperation[u[i]] : i \in (k + 2)..Len(u)}
    BY DEF YetToCome
  <1>4. NextOperation(s) # None => NextOperation(s) \in CompensatingOperations
    BY NextIsOperation, ReverseIsOperation DEF Row, ProgressTyped
  <1> HIDE DEF u, k
  <1> QED
    BY <1>2, <1>3, <1>4, ReverseIsOperation

LEMMA RejectedSpends ==
  ASSUME OrdersOK, Others, NEW o \in Orders, NEW n, ReceiveRejected(o, n),
         Budget(saga[o], outbox[o], resumes[o])
  PROVE  Spends(o)
  <1> DEFINE f == FreshCounters(Cleared(saga[o]))
             failed == [f EXCEPT !.status = "FAILED"]
             turned == [f EXCEPT !.status = "COMPENSATING"]
  <1>1. /\ saga[o].status = "IN_PROGRESS" /\ resumes' = resumes
        /\ IF f.completedSteps = <<>>
           THEN saga' = [saga EXCEPT ![o] = failed] /\ outbox' = outbox
           ELSE Dispatch(o, turned)
    BY DEF ReceiveRejected, Arrives, Save
  <1>2. f \in Row /\ f.brokerAttempts = 0
    BY RowTypes, FreshRow
  <1> HIDE DEF f
  <1>3. /\ failed.status \in Terminal
        /\ turned \in Row /\ turned.status = "COMPENSATING" /\ turned.brokerAttempts = 0
    BY <1>2 DEF Row, Statuses, Active, Terminal
  <1> HIDE DEF failed, turned
  <1>4. Operations \ UpTo[saga[o].currentOperation] = YetToCome(saga[o])
    BY <1>1 DEF YetToCome
  <1>5. CompensatingOperations \subseteq YetToCome(saga[o])
    <2>1. UpTo[saga[o].currentOperation] \subseteq ForwardOperations
      BY RowTypes, UpToTable DEF Row
    <2>2. \A operation \in CompensatingOperations :
            operation \in Operations /\ operation \notin ForwardOperations
      BY DEF CompensatingOperations, ForwardOperations, Operations
    <2> QED
      BY <1>4, <2>1, <2>2
  <1>6. CASE f.completedSteps = <<>>
    <2>1. Budget(failed, outbox[o], resumes[o])
      BY <1>3, EndedBudget
    <2> QED
      BY <1>1, <1>6, <2>1, SaveSpends
  <1>7. CASE f.completedSteps # <<>>
    BY <1>1, <1>3, <1>5, <1>7, UndoingComes, FreshSpends DEF Active
  <1> QED
    BY <1>6, <1>7

LEMMA CompensatedSpends ==
  ASSUME OrdersOK, Others, NEW o \in Orders, NEW n, ReceiveCompensated(o, n),
         Budget(saga[o], outbox[o], resumes[o])
  PROVE  Spends(o)
  <1> DEFINE r == saga[o]
             u == UndoAfter[r.currentOperation]
             k == Len(r.compensatedSteps)
             f == FreshCounters(Cleared(r))
             s == [f EXCEPT !.compensatedSteps = Append(@, NextUndo(r))]
  <1>1. /\ Arrives(o, n) /\ Awaited(o, n) /\ r.status = "COMPENSATING"
        /\ Dispatch(o, s) /\ resumes' = resumes
    BY DEF ReceiveCompensated, Arrives
  <1>2. r \in Row /\ ~Undone(r)
    BY <1>1, AwaitedFacts DEF Others
  <1>3. u \in Seq(StepNames) /\ k \in Nat /\ Len(u) \in Nat /\ k < Len(u)
    BY <1>2, Tables DEF Undone, Row
  <1>4. NextUndo(r) \in StepNames
    BY <1>3, PrefixGrows DEF NextUndo
  <1>5. /\ s \in Row /\ s.status = "COMPENSATING" /\ s.brokerAttempts = 0
        /\ s.currentOperation = r.currentOperation
        /\ Len(s.compensatedSteps) = k + 1
    <2>1. /\ Append(r.compensatedSteps, NextUndo(r)) \in Seq(StepNames)
          /\ Len(Append(r.compensatedSteps, NextUndo(r))) = k + 1
      BY <1>2, <1>4 DEF Row
    <2>2. /\ f \in Row /\ f.status = r.status /\ f.currentOperation = r.currentOperation
          /\ f.compensatedSteps = r.compensatedSteps /\ f.brokerAttempts = 0
      BY <1>2, FreshRow
    <2> HIDE DEF f
    <2> QED
      BY <1>1, <2>1, <2>2 DEF Row
  <1> HIDE DEF s, f
  <1>6. /\ YetToCome(r) = {ReverseOperation[u[i]] : i \in (k + 2)..Len(u)}
        /\ YetToCome(s) = {ReverseOperation[u[i]] : i \in (k + 1 + 2)..Len(u)}
    BY <1>1, <1>5 DEF YetToCome
  <1>7. NextOperation(s) # None =>
          /\ NextOperation(s) = ReverseOperation[u[k + 1 + 1]]
          /\ k + 1 < Len(u)
    <2>1. (Undone(s) <=> k + 1 >= Len(u)) /\ NextUndo(s) = u[k + 1 + 1]
      BY <1>5 DEF Undone, NextUndo
    <2> HIDE DEF u, k
    <2>2. k + 1 >= Len(u) \/ k + 1 < Len(u)
      BY <1>3
    <2> QED
      BY <1>5, <2>1, <2>2 DEF NextOperation
  <1> HIDE DEF r, u, k
  <1>8. /\ \A i \in (k + 1 + 2)..Len(u) : i \in (k + 2)..Len(u)
        /\ k + 1 < Len(u) => k + 1 + 1 \in (k + 2)..Len(u)
    BY <1>3
  <1>9. /\ YetToCome(s) \subseteq YetToCome(r)
        /\ NextOperation(s) # None => NextOperation(s) \in YetToCome(r)
    BY <1>6, <1>7, <1>8
  <1> QED
    BY <1>1, <1>5, <1>9, FreshSpends DEF Active, r

LEMMA FinalizedSpends ==
  ASSUME OrdersOK, Others, NEW o \in Orders, NEW n, ReceiveFinalized(o, n),
         Budget(saga[o], outbox[o], resumes[o])
  PROVE  Spends(o)
  <1> DEFINE f == FreshCounters(Cleared(saga[o]))
             t == [f EXCEPT !.status = "COMPLETED", !.inventoryFinalized = TRUE]
  <1>1. saga' = [saga EXCEPT ![o] = t] /\ outbox' = outbox /\ resumes' = resumes
    BY DEF ReceiveFinalized, Arrives, Save
  <1>2. f \in Row
    BY RowTypes, FreshRow
  <1> HIDE DEF f
  <1>3. t.status \in Terminal
    BY <1>2 DEF Row, Terminal
  <1> HIDE DEF t
  <1> QED
    BY <1>1, <1>3, EndedBudget, SaveSpends

LEMMA RecoverClaimSpends ==
  ASSUME OrdersOK, Others, NEW w \in Workers, NEW o \in Orders, Recover(w, o),
         Budget(saga[o], outbox[o], resumes[o])
  PROVE  Spends(o)
  <1>1. resumes' = resumes
    BY DEF Recover, RecoverIntervene, RecoverWait, RecoverResend, Processes
  <1>2. ASSUME NEW t \in Row, SameProgress(saga[o], t),
               t.brokerAttempts = saga[o].brokerAttempts
        PROVE  Budget(t, outbox[o], resumes[o])
    BY <1>2, RowTypes, KeptBudget
  <1>3. CASE RecoverIntervene(w, o)
    <2> DEFINE t == [saga[o] EXCEPT !.interventionReason = RecoveryFault(o),
                                    !.leaseOwner = None]
    <2>1. saga' = [saga EXCEPT ![o] = t] /\ outbox' = outbox
      BY <1>3 DEF RecoverIntervene, Intervene, Save
    <2>2. RecoveryFault(o) \in Reasons
      BY <1>3 DEF RecoverIntervene, RecoveryFault, Reasons
    <2>3. t \in Row /\ SameProgress(saga[o], t) /\ t.brokerAttempts = saga[o].brokerAttempts
      BY <2>2, RowTypes DEF Row, SameProgress
    <2> HIDE DEF t
    <2> QED
      BY <1>1, <1>2, <2>1, <2>3, SaveSpends
  <1>4. CASE RecoverWait(w, o)
    <2> DEFINE t == [saga[o] EXCEPT !.leaseOwner = None]
    <2>1. saga' = [saga EXCEPT ![o] = t] /\ outbox' = outbox
      BY <1>4 DEF RecoverWait, Save
    <2>2. t \in Row /\ SameProgress(saga[o], t) /\ t.brokerAttempts = saga[o].brokerAttempts
      BY RowTypes DEF Row, SameProgress
    <2> HIDE DEF t
    <2> QED
      BY <1>1, <1>2, <2>1, <2>2, SaveSpends
  <1>5. CASE RecoverResend(w, o)
    <2> DEFINE s == [saga[o] EXCEPT !.pendingMessageId = 0, !.recoveryAttempts = @ + 1]
    <2>1. /\ Dispatch(o, s) /\ HoldsLease(w, o) /\ RecoveryFault(o) = None
          /\ ~AwaitsDelivery(o)
      BY <1>5 DEF RecoverResend
    <2>2. /\ saga[o].status \in Active /\ Consistent(saga[o])
          /\ saga[o].pendingMessageId \in DOMAIN outbox[o]
      BY <2>1, LeasedFacts
    <2>3. saga[o].brokerAttempts < RetryLimit
      <3>1. ~(saga[o].brokerAttempts >= RetryLimit)
        BY <2>1, <2>2 DEF RecoveryFault, None
      <3> QED
        BY <3>1, RowTypes DEF Row
    <2>4. /\ s \in Row /\ SameProgress(saga[o], s)
          /\ s.brokerAttempts = saga[o].brokerAttempts
      <3>1. saga[o].recoveryAttempts + 1 \in Nat /\ 0 \in Nat /\ saga[o] \in Row
        BY RowTypes DEF Row
      <3>2. s = [saga[o] EXCEPT !.pendingMessageId = 0,
                                !.recoveryAttempts = saga[o].recoveryAttempts + 1]
        BY <3>1 DEF Row
      <3> HIDE DEF s
      <3> QED
        BY <3>1, <3>2 DEF Row, SameProgress
    <2> HIDE DEF s
    <2>5. Hands(o, s)
      BY <1>1, <1>2, <2>1, <2>2, <2>3, <2>4 DEF Hands, SameProgress
    <2> QED
      BY <1>1, <2>5, HandsSpends
  <1> QED
    BY <1>3, <1>4, <1>5 DEF Recover

LEMMA ClaimKeepsBudget ==
  ASSUME OrdersOK, Others, NEW w \in Workers, NEW batch, ClaimRecovery(w, batch),
         NEW o \in Orders, Budget(saga[o], outbox[o], resumes[o])
  PROVE  Budget(saga'[o], outbox'[o], resumes'[o])
  <1>1. /\ saga'[o] = saga[o] \/ saga'[o] = [saga[o] EXCEPT !.leaseOwner = w]
        /\ outbox' = outbox /\ resumes' = resumes
    BY DEF ClaimRecovery
  <1> DEFINE t == [saga[o] EXCEPT !.leaseOwner = w]
  <1>2. t \in Row /\ SameProgress(saga[o], t) /\ t.brokerAttempts = saga[o].brokerAttempts
    BY RowTypes DEF Row, SameProgress
  <1> HIDE DEF t
  <1>3. Budget(t, outbox[o], resumes[o])
    BY <1>2, RowTypes, KeptBudget
  <1> QED
    BY <1>1, <1>3 DEF t

LEMMA RelayKeepsBudget ==
  ASSUME OrdersOK, Others, NEW o \in Orders, NEW n \in DOMAIN outbox[o], Relay(o, n),
         NEW p \in Orders, Budget(saga[p], outbox[p], resumes[p])
  PROVE  Budget(saga'[p], outbox'[p], resumes'[p])
  <1>1. /\ saga' = saga /\ resumes' = resumes
        /\ \E d \in {"sent", "published"} : outbox' = [outbox EXCEPT ![o][n].delivery = d]
    BY DEF Relay, RelayPublish, RelayMark
  <1>2. PICK d \in {"sent", "published"} : outbox' = [outbox EXCEPT ![o][n].delivery = d]
    BY <1>1
  <1>3. CASE p # o
    BY <1>1, <1>2, <1>3, RowTypes
  <1>4. CASE p = o
    <2>1. outbox[o][n] \in Command
      BY RowTypes, ElementOfSeq
    <2> DEFINE c == [outbox[o][n] EXCEPT !.delivery = d]
    <2>2. c.operation = outbox[o][n].operation
      BY <2>1 DEF Command
    <2>3. outbox'[o] = [outbox[o] EXCEPT ![n] = c]
      BY <1>2, RowTypes
    <2> HIDE DEF c
    <2>4. /\ DOMAIN outbox'[o] = DOMAIN outbox[o]
          /\ \A m \in DOMAIN outbox[o] : outbox'[o][m].operation = outbox[o][m].operation
      BY <2>2, <2>3
    <2>5. \A operation : Places(outbox'[o], operation) = Places(outbox[o], operation)
      BY <2>4 DEF Places
    <2> QED
      BY <1>1, <1>4, <2>5 DEF Budget, Times
  <1> QED
    BY <1>3, <1>4

BudgetKept == \A o \in Orders : Budget(saga[o], outbox[o], resumes[o])

LEMMA InitBudget == Init => BudgetKept
  <1> SUFFICES ASSUME Init, NEW o \in Orders
               PROVE  Budget(saga[o], outbox[o], resumes[o])
    BY DEF BudgetKept
  <1>1. /\ saga[o].status = "ABSENT" /\ outbox[o] = <<>> /\ resumes[o] = 0
    BY DEF Init, NewRow
  <1>2. \A operation : Times(<<>>, operation) = 0
    <2>1. \A operation : Places(<<>>, operation) = {}
      BY DEF Places
    <2> QED
      BY <2>1, FS_EmptySet DEF Times
  <1>3. RetryLimit * (1 + 0) >= 0
    BY Products
  <1> QED
    BY <1>1, <1>2, <1>3 DEF Budget, Active

LEMMA NextBudget == IInv /\ BudgetKept /\ [Next]_vars => BudgetKept'
  <1> SUFFICES ASSUME IInv, BudgetKept, [Next]_vars PROVE BudgetKept'
    OBVIOUS
  <1>1. OrdersOK /\ Others
    BY IInvParts
  <1>2. ASSUME NEW o \in Orders, Spends(o) PROVE BudgetKept'
    BY <1>2 DEF BudgetKept, Spends
  <1>3. ASSUME UNCHANGED <<saga, outbox, resumes>> PROVE BudgetKept'
    BY <1>3 DEF BudgetKept
  <1>4. ASSUME NEW o \in Orders, Request(o) PROVE BudgetKept'
    BY <1>1, <1>2, <1>4, AcceptSpends, ConfirmPaymentSpends, ResumeSpends
       DEF Request, BudgetKept
  <1>5. ASSUME NEW o \in Orders, NEW n \in DOMAIN outbox[o], Receive(o, n) PROVE BudgetKept'
    <2>1. CASE ReceiveStale(o, n)
      BY <1>3, <2>1 DEF ReceiveStale, Arrives
    <2> QED
      BY <1>1, <1>2, <1>5, <2>1, RetryableSpends, StepSucceededSpends, RejectedSpends,
         CompensatedSpends, FinalizedSpends DEF Receive, BudgetKept
  <1>6. ASSUME NEW w \in Workers, NEW o \in holding[w], RecoverClaim(w, o) PROVE BudgetKept'
    <2>1. o \in Orders
      BY <1>1 DEF Others
    <2>2. CASE RecoverFenced(w, o)
      BY <1>3, <2>2 DEF RecoverFenced, Processes
    <2> QED
      BY <1>1, <1>2, <1>6, <2>1, <2>2, RecoverClaimSpends DEF RecoverClaim, BudgetKept
  <1>7. ASSUME NEW w \in Workers, NEW batch \in SUBSET Claimable, ClaimRecovery(w, batch)
        PROVE  BudgetKept'
    BY <1>1, <1>7, ClaimKeepsBudget DEF BudgetKept
  <1>8. ASSUME NEW o \in Orders, NEW n \in DOMAIN outbox[o], Relay(o, n) PROVE BudgetKept'
    BY <1>1, <1>8, RelayKeepsBudget DEF BudgetKept
  <1>9. ASSUME \/ \E o \in Orders : PassTime(o)
               \/ \E w \in Workers : AbandonScan(w)
               \/ UNCHANGED vars
        PROVE  BudgetKept'
    BY <1>3, <1>9 DEF PassTime, PassNextAttempt, PassResponseDeadline, PassLease,
                      AbandonScan, vars
  <1> QED
    BY <1>4, <1>5, <1>6, <1>7, <1>8, <1>9 DEF Next

(* Retries after answers, recoveries after silence and resumes draw on one  *)
(* budget: no interleaving of them sends an operation more than RetryLimit  *)
(* times per cycle.                                                         *)
THEOREM BudgetIsRespected == Spec => []RetryBudget
  <1>1. BudgetKept => RetryBudget
    BY DEF BudgetKept, Budget, RetryBudget, Times, Places
  <1> QED
    BY <1>1, InitBudget, NextBudget, Invariance, PTL DEF Spec

-----------------------------------------------------------------------------
(***************************************************************************)
(* Orders and participants never disagree: for every set of orders and     *)
(* workers and every limit, what an ended order reports is true of all     *)
(* three participants.  The invariant above says what the rows of the      *)
(* orchestrator may be; this one adds what the commands sent and the       *)
(* results told have to do with them.                                      *)
(***************************************************************************)

Sent(out) == {out[n].operation : n \in DOMAIN out}

(* A definitive answer repeats what its participant told.                   *)
AnswerTrue(a, out, said) ==
  /\ a.command \in DOMAIN out
  /\ LET operation == out[a.command].operation
     IN a.outcome # "RETRY" => P!Says(operation, a.outcome) \in said[Owner(operation)]

Said(o) == [service \in Services |-> told[service][o]]

OrderTrue(o) ==
  /\ RowTrue(saga[o], Sent(outbox[o]), Said(o))
  /\ \A service \in Services :
       ServiceTrue(service, effect[service][o], told[service][o], Sent(outbox[o]))
  /\ \A a \in answers[o] : AnswerTrue(a, outbox[o], Said(o))

EnvironmentOK ==
  /\ effect \in [Services -> [Orders -> Effects]]
  /\ told \in [Services -> [Orders -> SUBSET Tellings]]
  /\ answers \in [Orders -> SUBSET Answer]

SystemInv == EnvironmentOK /\ \A o \in Orders : OrderTrue(o)

-----------------------------------------------------------------------------
(* What is said of an operation.                                           *)

LEMMA Vocabulary ==
  ASSUME NEW operation \in Operations
  PROVE  /\ P!Owner(operation) = Owner(operation)
         /\ operation \in CompensatingOperations => P!Says(operation, "SUCCEEDED") = "UNDONE"
         /\ operation \in ForwardOperations \ {"FINALIZE_INVENTORY"} =>
              P!Says(operation, "SUCCEEDED") = "DONE"
         /\ operation = "FINALIZE_INVENTORY" => P!Says(operation, "SUCCEEDED") = "FINAL"
         /\ P!Says(operation, "REJECTED") = "REFUSED"
         /\ \A outcome : P!Says(operation, outcome) \in Tellings
         /\ P!CompensatingOperations = CompensatingOperations
  BY DEF Operations, ForwardOperations, CompensatingOperations, Owner, Tellings, P!Says, P!Owner,
         P!CompensatingOperations

-----------------------------------------------------------------------------
(* Participants: a command that was sent takes effect, or is answered.     *)

LEMMA ServiceMoves ==
  ASSUME NEW operation \in Operations, NEW sent, operation \in sent,
         NEW far, NEW said,
         ServiceTrue(Owner(operation), far, said, sent),
         NEW next, next = P!Brings(operation, far), next # far,
         next \in P!The(Owner(operation))!Follows[far],
         next = "done" => "REFUSED" \notin said
  PROVE  ServiceTrue(Owner(operation), next, said, sent)
  <1>1. far \in Effects
    BY DEF ServiceTrue
  <1>2. \/ far = "none" /\ next \in {"void", "done"}
        \/ far = "done" /\ next \in {"undone", "final"}
    BY <1>1 DEF Effects, P!The!Follows
  <1>3. /\ next \in {"void", "undone"} => operation \in CompensatingOperations
        /\ next = "final" => operation = "FINALIZE_INVENTORY"
        /\ next = "done" => operation \in ForwardOperations \ {"FINALIZE_INVENTORY"}
    BY <1>2, Vocabulary, OwnerTable DEF P!Brings, Operations
  <1> QED
    BY <1>2, <1>3, Vocabulary, OwnerTable DEF ServiceTrue, Effects

LEMMA ServiceTells ==
  ASSUME NEW service, NEW sent, NEW far, NEW said,
         ServiceTrue(service, far, said, sent),
         NEW results, results \subseteq P!The(service)!TrueOf[far]
  PROVE  ServiceTrue(service, far, said \cup results, sent)
  <1>1. far \in Effects
    BY DEF ServiceTrue
  <1>2. CASE far = "none"
    BY <1>2 DEF ServiceTrue, P!The!TrueOf, Tellings
  <1>3. CASE far = "void"
    BY <1>3 DEF ServiceTrue, P!The!TrueOf, Tellings
  <1>4. CASE far = "done"
    BY <1>4 DEF ServiceTrue, P!The!TrueOf, Tellings
  <1>5. CASE far = "undone"
    BY <1>5 DEF ServiceTrue, P!The!TrueOf, Tellings
  <1>6. CASE far = "final"
    BY <1>6 DEF ServiceTrue, P!The!TrueOf, Tellings
  <1> QED
    BY <1>1, <1>2, <1>3, <1>4, <1>5, <1>6 DEF Effects

LEMMA AnswerStaysTrue ==
  ASSUME NEW out \in Seq(Command), NEW said, NEW more, NEW a, AnswerTrue(a, out, said),
         \A service \in Services : said[service] \subseteq more[service]
  PROVE  AnswerTrue(a, out, more)
  <1>1. out[a.command].operation \in Operations
    <2>1. \A i \in DOMAIN out : out[i] \in Command
      BY ElementOfSeq
    <2> QED
      BY <2>1 DEF AnswerTrue, Command
  <1> QED
    BY <1>1, Vocabulary, OwnerTable DEF AnswerTrue

LEMMA DeliveredFacts ==
  ASSUME IInv, NEW o \in Orders, NEW n \in DOMAIN outbox[o]
  PROVE  /\ outbox[o] \in Seq(Command) /\ n \in Nat
         /\ outbox[o][n].operation \in Operations
         /\ outbox[o][n].operation \in Sent(outbox[o])
  <1>1. outbox[o] \in Seq(Command)
    BY DEF IInv, TypeOK
  <1>2. outbox[o][n] \in Command /\ n \in Nat
    BY <1>1
  <1> QED
    BY <1>1, <1>2 DEF Command, Sent

LEMMA ExecutePreserves ==
  ASSUME IInv, SystemInv, NEW o \in Orders, NEW n \in DOMAIN outbox[o], Execute(o, n)
  PROVE  SystemInv'
  <1>0. PICK operation \in Operations : operation = outbox[o][n].operation
    BY DeliveredFacts
  <1>1. operation \in Sent(outbox[o]) /\ P!Owner(operation) = Owner(operation)
    BY <1>0, DeliveredFacts, Vocabulary, OwnerTable
  <1>2. /\ P!Executes(o, operation)
        /\ saga' = saga /\ outbox' = outbox /\ answers' = answers
    BY <1>0 DEF Execute, vars
  <1>3. PICK service \in Services :
          /\ service = Owner(operation)
          /\ effect[service][o] # P!Brings(operation, effect[service][o])
          /\ effect' = [effect EXCEPT ![service][o] = P!Brings(operation, effect[service][o])]
          /\ told' = told
          /\ P!The(service)!Step(o)
    <2>1. PICK service \in {P!Owner(operation)} :
            /\ effect[service][o] # P!Brings(operation, effect[service][o])
            /\ effect' = [effect EXCEPT ![service][o] = P!Brings(operation, @)]
            /\ told' = told
            /\ P!The(service)!Step(o)
      BY <1>2 DEF P!Executes
    <2>2. service \in Services /\ service = Owner(operation)
      BY <1>1, Vocabulary, OwnerTable
    <2> QED
      BY <2>1, <2>2
  <1> PICK next : next = P!Brings(operation, effect[service][o])
    OBVIOUS
  <1>4. ServiceTrue(service, effect[service][o], told[service][o], Sent(outbox[o]))
    BY <1>3 DEF SystemInv, OrderTrue
  <1>5. /\ next \in P!The(service)!Follows[effect[service][o]]
        /\ next = "done" => "REFUSED" \notin told[service][o]
    <2>1. PICK far \in P!The(service)!Follows[effect[service][o]] :
            /\ far = "done" => "REFUSED" \notin told[service][o]
            /\ effect'[service] = [effect[service] EXCEPT ![o] = far]
      BY <1>3 DEF P!The!Step
    <2>2. effect'[service][o] = far /\ effect'[service][o] = next
      BY <1>3, <2>1 DEF SystemInv, EnvironmentOK
    <2> QED
      BY <2>1, <2>2
  <1>6. ServiceTrue(service, next, told[service][o], Sent(outbox[o]))
    BY <1>1, <1>3, <1>4, <1>5, ServiceMoves
  <1>7. \A q \in Services : \A p \in Orders :
          effect'[q][p] = IF q = service /\ p = o THEN next ELSE effect[q][p]
    BY <1>3 DEF SystemInv, EnvironmentOK
  <1>8. EnvironmentOK'
    BY <1>2, <1>3, <1>6 DEF SystemInv, EnvironmentOK, ServiceTrue
  <1>9. ASSUME NEW p \in Orders PROVE OrderTrue(p)'
    <2>1. Said(p)' = Said(p)
      BY <1>3 DEF Said
    <2> QED
      BY <1>2, <1>3, <1>6, <1>7, <2>1 DEF SystemInv, OrderTrue
  <1> QED
    BY <1>8, <1>9 DEF SystemInv

LEMMA RespondDefinitivelyPreserves ==
  ASSUME IInv, SystemInv, NEW o \in Orders, NEW n \in DOMAIN outbox[o],
         RespondDefinitively(o, n)
  PROVE  SystemInv'
  <1>0. PICK operation \in Operations : operation = outbox[o][n].operation
    BY DeliveredFacts
  <1>1. n \in Nat /\ outbox \in [Orders -> Seq(Command)]
    BY DeliveredFacts DEF IInv, TypeOK
  <1>2. PICK outcome \in {"SUCCEEDED", "REJECTED"} :
          /\ answers' = [answers EXCEPT ![o] = @ \cup {[command |-> n, outcome |-> outcome]}]
          /\ saga' = saga /\ outbox' = outbox
          /\ P!Answers(o, operation, outcome)
    BY <1>0 DEF RespondDefinitively, Respond, vars
  <1>3. PICK service \in Services :
          /\ service = Owner(operation)
          /\ told' = [told EXCEPT ![service][o] = @ \cup {P!Says(operation, outcome)}]
          /\ effect' = effect
          /\ P!The(service)!Step(o)
    <2>1. PICK service \in {P!Owner(operation)} :
            /\ told' = [told EXCEPT ![service][o] = @ \cup {P!Says(operation, outcome)}]
            /\ effect' = effect
            /\ P!The(service)!Step(o)
      BY <1>2 DEF P!Answers
    <2>2. service \in Services /\ service = Owner(operation)
      BY Vocabulary, OwnerTable
    <2> QED
      BY <2>1, <2>2
  <1> PICK word \in Tellings : word = P!Says(operation, outcome)
    BY Vocabulary, OwnerTable
  <1> PICK a : a = [command |-> n, outcome |-> outcome]
    OBVIOUS
  <1>4. /\ AnswerTrue(a, outbox[o], [Said(o) EXCEPT ![service] = @ \cup {word}])
        /\ a \in Answer
    BY <1>0, <1>1, <1>3 DEF AnswerTrue, Answer, Said
  <1>5. \A q \in Services : \A p \in Orders :
          told'[q][p] = IF q = service /\ p = o THEN told[q][p] \cup {word} ELSE told[q][p]
    BY <1>3 DEF SystemInv, EnvironmentOK
  <1>6. word \in told[service][o] \cup P!The(service)!TrueOf[effect[service][o]]
    <2>1. PICK results \in SUBSET P!The(service)!TrueOf[effect'[service][o]] :
            told'[service] = [told[service] EXCEPT ![o] = @ \cup results]
      BY <1>3 DEF P!The!Step
    <2>2. told'[service][o] = told[service][o] \cup results
      BY <2>1 DEF SystemInv, EnvironmentOK
    <2> QED
      BY <1>3, <1>5, <2>1, <2>2
  <1>7. ServiceTrue(service, effect[service][o], told[service][o] \cup {word}, Sent(outbox[o]))
    <2>1. ServiceTrue(service, effect[service][o], told[service][o], Sent(outbox[o]))
      BY DEF SystemInv, OrderTrue
    <2>2. CASE word \in told[service][o]
      <3>1. told[service][o] \cup {word} = told[service][o]
        BY <2>2
      <3> QED
        BY <2>1, <3>1
    <2>3. CASE word \in P!The(service)!TrueOf[effect[service][o]]
      <3>1. {word} \subseteq P!The(service)!TrueOf[effect[service][o]]
        BY <2>3
      <3> QED
        BY <2>1, <3>1, ServiceTells
    <2> QED
      BY <1>6, <2>2, <2>3
  <1>8. EnvironmentOK'
    BY <1>2, <1>3, <1>4 DEF SystemInv, EnvironmentOK
  <1>9. ASSUME NEW p \in Orders PROVE OrderTrue(p)'
    <2>1. \A q \in Services : Said(p)[q] \subseteq Said(p)'[q]
      BY <1>5 DEF Said
    <2>2. saga[p] \in Row /\ outbox[p] \in Seq(Command)
      BY <1>1 DEF IInv, TypeOK
    <2>3. RowTrue(saga[p], Sent(outbox[p]), Said(p)')
      BY <2>1, <2>2, RowStaysTrue DEF SystemInv, OrderTrue, Row, ProgressTyped
    <2>4. \A q \in Services :
            ServiceTrue(q, effect[q][p], told'[q][p], Sent(outbox[p]))
      BY <1>5, <1>7 DEF SystemInv, OrderTrue
    <2>5. \A b \in answers[p] : AnswerTrue(b, outbox[p], Said(p)')
      BY <2>1, <2>2, AnswerStaysTrue DEF SystemInv, OrderTrue
    <2>6. p = o => Said(p)' = [Said(o) EXCEPT ![service] = @ \cup {word}]
      BY <1>5 DEF Said
    <2>7. \A b \in answers'[p] : b \in answers[p] \/ (p = o /\ b = a)
      BY <1>2 DEF SystemInv, EnvironmentOK
    <2>8. \A b \in answers'[p] : AnswerTrue(b, outbox[p], Said(p)')
      BY <1>4, <2>5, <2>6, <2>7
    <2> QED
      BY <1>2, <1>3, <2>3, <2>4, <2>8 DEF OrderTrue
  <1> QED
    BY <1>8, <1>9 DEF SystemInv

LEMMA RespondRetryablePreserves ==
  ASSUME IInv, SystemInv, NEW o \in Orders, NEW n \in DOMAIN outbox[o],
         RespondRetryable(o, n)
  PROVE  SystemInv'
  <1> DEFINE a == [command |-> n, outcome |-> "RETRY"]
  <1>1. /\ answers' = [answers EXCEPT ![o] = @ \cup {a}]
        /\ effect' = effect /\ told' = told /\ saga' = saga /\ outbox' = outbox
    BY DEF RespondRetryable, Respond, vars
  <1>2. a \in Answer /\ AnswerTrue(a, outbox[o], Said(o))
    BY DeliveredFacts DEF Answer, AnswerTrue
  <1> HIDE DEF a
  <1>3. EnvironmentOK'
    BY <1>1, <1>2 DEF SystemInv, EnvironmentOK
  <1>4. ASSUME NEW p \in Orders PROVE OrderTrue(p)'
    <2>1. Said(p)' = Said(p)
      BY <1>1 DEF Said
    <2>2. \A b \in answers'[p] : b \in answers[p] \/ (p = o /\ b = a)
      BY <1>1 DEF SystemInv, EnvironmentOK
    <2> QED
      BY <1>1, <1>2, <2>1, <2>2 DEF SystemInv, OrderTrue
  <1> QED
    BY <1>3, <1>4 DEF SystemInv

-----------------------------------------------------------------------------
(* The orchestrator: what it sends and writes rests on what it was told.   *)

LEMMA AppendSends ==
  ASSUME NEW out \in Seq(Command), NEW command \in Command
  PROVE  /\ Sent(Append(out, command)) = Sent(out) \cup {command.operation}
         /\ \A n \in DOMAIN out :
              /\ n \in DOMAIN Append(out, command)
              /\ Append(out, command)[n] = out[n]
  <1> DEFINE more == Append(out, command)
  <1>1. /\ Len(out) \in Nat /\ DOMAIN out = 1..Len(out)
        /\ DOMAIN more = 1..(Len(out) + 1)
        /\ more[Len(out) + 1] = command
        /\ \A n \in 1..Len(out) : more[n] = out[n]
    BY LenProperties, AppendProperties
  <1> HIDE DEF more
  <1>2. \A n \in DOMAIN out : n \in DOMAIN more /\ more[n] = out[n]
    BY <1>1
  <1>3. \A n \in DOMAIN more : n \in DOMAIN out \/ n = Len(out) + 1
    BY <1>1
  <1>4. Len(out) + 1 \in DOMAIN more
    BY <1>1
  <1>5. Sent(more) = Sent(out) \cup {command.operation}
    BY <1>1, <1>2, <1>3, <1>4 DEF Sent
  <1> QED
    BY <1>2, <1>5 DEF more

(* A row whose outbox grows by what its progress calls for.                 *)
Grows(o) ==
  /\ \A n \in DOMAIN outbox[o] :
       n \in DOMAIN outbox'[o] /\ outbox'[o][n].operation = outbox[o][n].operation
  /\ RowTrue(saga'[o], Sent(outbox'[o]), Said(o))

LEMMA GrowthIsTrue ==
  ASSUME IInv, SystemInv, NEW o \in Orders, Grows(o), UNCHANGED environment,
         \A p \in Orders \ {o} : saga'[p] = saga[p] /\ outbox'[p] = outbox[p]
  PROVE  SystemInv'
  <1>1. effect' = effect /\ told' = told /\ answers' = answers
    BY DEF environment
  <1>2. EnvironmentOK'
    BY <1>1 DEF SystemInv, EnvironmentOK
  <1>3. ASSUME NEW p \in Orders PROVE OrderTrue(p)'
    <2>1. Said(p)' = Said(p)
      BY <1>1 DEF Said
    <2>2. CASE p # o
      BY <1>1, <2>1, <2>2 DEF SystemInv, OrderTrue
    <2>3. CASE p = o
      <3>1. Sent(outbox[o]) \subseteq Sent(outbox'[o])
        BY DEF Grows, Sent
      <3>2. \A service \in Services :
              ServiceTrue(service, effect[service][o], told[service][o], Sent(outbox'[o]))
        BY <3>1 DEF SystemInv, OrderTrue, ServiceTrue
      <3>3. \A a \in answers[o] : AnswerTrue(a, outbox'[o], Said(o))
        BY DEF SystemInv, OrderTrue, AnswerTrue, Grows
      <3> QED
        BY <1>1, <2>1, <2>3, <3>2, <3>3 DEF OrderTrue, Grows
    <2> QED
      BY <2>2, <2>3
  <1> QED
    BY <1>2, <1>3 DEF SystemInv

LEMMA DispatchGrows ==
  ASSUME IInv, NEW o \in Orders, NEW s \in Row, s.status \in Active, Dispatch(o, s),
         RowTrue(s, Sent(outbox[o]), Said(o))
  PROVE  /\ Grows(o)
         /\ \A p \in Orders \ {o} : saga'[p] = saga[p] /\ outbox'[p] = outbox[p]
  <1>1. /\ saga \in [Orders -> Row] /\ outbox \in [Orders -> Seq(Command)]
        /\ outbox[o] \in Seq(Command)
    BY DEF IInv, TypeOK
  <1>2. \A p \in Orders \ {o} : saga'[p] = saga[p] /\ outbox'[p] = outbox[p]
    BY <1>1 DEF Dispatch, Save
  <1>3. CASE NextOperation(s) = None
    <2> DEFINE t == [s EXCEPT !.status = "FAILED", !.pendingMessageId = 0, !.leaseOwner = None]
    <2>1. saga'[o] = t /\ outbox' = outbox
      BY <1>1, <1>3 DEF Dispatch, Save
    <2>2. s.status = "COMPENSATING"
      BY <1>3 DEF NextOperation, Row, ForwardOperations, None
    <2>3. /\ t.status = "FAILED" /\ t.currentOperation = s.currentOperation
          /\ t.completedSteps = s.completedSteps /\ t.compensatedSteps = s.compensatedSteps
      BY DEF Row
    <2> HIDE DEF t
    <2> QED
      BY <1>2, <2>1, <2>2, <2>3 DEF Grows, RowTrue
  <1>4. CASE NextOperation(s) # None
    <2> DEFINE t == [s EXCEPT !.pendingMessageId = Len(outbox[o]) + 1,
                              !.brokerAttempts = @ + 1,
                              !.leaseOwner = None]
               command == [operation |-> NextOperation(s), delivery |-> "queued"]
    <2>1. saga'[o] = t /\ outbox'[o] = Append(outbox[o], command)
      BY <1>1, <1>4 DEF Dispatch
    <2>2. /\ t.status = s.status /\ t.currentOperation = s.currentOperation
          /\ t.completedSteps = s.completedSteps /\ t.compensatedSteps = s.compensatedSteps
      BY DEF Row
    <2>3. command \in Command
      BY <1>4, NextIsOperation DEF Command, Row, ProgressTyped
    <2>4. command.operation = NextOperation(s)
      OBVIOUS
    <2> HIDE DEF t, command
    <2>5. RowTrue(t, Sent(outbox[o]) \cup {NextOperation(s)}, Said(o))
      BY <1>4, <2>2, SentRowTrue DEF Row, ProgressTyped
    <2> QED
      BY <1>1, <1>2, <2>1, <2>3, <2>4, <2>5, AppendSends DEF Grows
  <1> QED
    BY <1>3, <1>4

(* Rows that only change in what RowTrue does not speak of.                 *)
LEMMA SameRowsAreTrue ==
  ASSUME SystemInv, UNCHANGED <<outbox, environment>>,
         \A p \in Orders : SameProgress(saga[p], saga'[p])
  PROVE  SystemInv'
  <1>1. effect' = effect /\ told' = told /\ answers' = answers /\ outbox' = outbox
    BY DEF environment
  <1>2. EnvironmentOK'
    BY <1>1 DEF SystemInv, EnvironmentOK
  <1>3. ASSUME NEW p \in Orders PROVE OrderTrue(p)'
    <2>1. Said(p)' = Said(p)
      BY <1>1 DEF Said
    <2>2. RowTrue(saga'[p], Sent(outbox[p]), Said(p))
      BY DEF SystemInv, OrderTrue, RowTrue, SameProgress
    <2> QED
      BY <1>1, <2>1, <2>2 DEF SystemInv, OrderTrue
  <1> QED
    BY <1>2, <1>3 DEF SystemInv

LEMMA DispatchIsTrue ==
  ASSUME IInv, SystemInv, UNCHANGED environment,
         NEW o \in Orders, NEW s \in Row, s.status \in Active, Dispatch(o, s),
         RowTrue(s, Sent(outbox[o]), Said(o))
  PROVE  SystemInv'
  BY DispatchGrows, GrowthIsTrue

LEMMA SaveIsTrue ==
  ASSUME IInv, SystemInv, UNCHANGED environment,
         NEW o \in Orders, NEW s, saga' = [saga EXCEPT ![o] = s], outbox' = outbox,
         RowTrue(s, Sent(outbox[o]), Said(o))
  PROVE  SystemInv'
  <1>1. saga \in [Orders -> Row]
    BY DEF IInv, TypeOK
  <1>2. Grows(o) /\ \A p \in Orders \ {o} : saga'[p] = saga[p] /\ outbox'[p] = outbox[p]
    BY <1>1 DEF Grows
  <1> QED
    BY <1>2, GrowthIsTrue

(* A command that is sent again rests on what its first sending did.        *)
LEMMA SendingAgainIsTrue ==
  ASSUME IInv, SystemInv, UNCHANGED environment,
         NEW o \in Orders, NEW s \in Row, s.status \in Active, Dispatch(o, s),
         SameProgress(saga[o], s)
  PROVE  SystemInv'
  <1>1. RowTrue(s, Sent(outbox[o]), Said(o))
    BY DEF SystemInv, OrderTrue, RowTrue, SameProgress
  <1> QED
    BY <1>1, DispatchIsTrue

LEMMA RequestIsTrue ==
  ASSUME IInv, SystemInv, UNCHANGED environment, NEW o \in Orders, Request(o)
  PROVE  SystemInv'
  <1> USE ConstantsAssumption
  <1>1. RowTrue(saga[o], Sent(outbox[o]), Said(o)) /\ saga[o] \in Row
    BY DEF SystemInv, OrderTrue, IInv, TypeOK
  <1>2. ASSUME NEW method \in Methods, Accept(o, method) PROVE SystemInv'
    <2> DEFINE row(status) == NewRow(status, method)
    <2>1. Sent(outbox[o]) = {}
      BY <1>1, <1>2 DEF Accept, RowTrue
    <2>2. ASSUME NEW status \in {"PENDING_PAYMENT", "IN_PROGRESS"}
          PROVE  /\ row(status) \in Row /\ row(status).status = status
                 /\ RowTrue(row(status), {}, Said(o))
      <3>1. row(status) \in Row
        BY NewRowIsRow
      <3>2. /\ row(status).status = status
            /\ row(status).completedSteps = <<>> /\ row(status).compensatedSteps = <<>>
        BY DEF NewRow
      <3> QED
        BY <3>1, <3>2 DEF RowTrue
    <2>3. CASE method = "BANK_TRANSFER"
      <3>1. saga' = [saga EXCEPT ![o] = row("PENDING_PAYMENT")] /\ outbox' = outbox
        BY <1>2, <2>3 DEF Accept
      <3> HIDE DEF row
      <3> QED
        BY <2>1, <2>2, <3>1, SaveIsTrue
    <2>4. CASE method # "BANK_TRANSFER"
      <3>1. Dispatch(o, row("IN_PROGRESS"))
        BY <1>2, <2>4 DEF Accept
      <3> HIDE DEF row
      <3>2. row("IN_PROGRESS").status \in Active
        BY <2>2 DEF Active
      <3> QED
        BY <2>1, <2>2, <3>1, <3>2, DispatchIsTrue
    <2> QED
      BY <2>3, <2>4
  <1>3. ASSUME ConfirmPayment(o) PROVE SystemInv'
    <2> DEFINE s == [saga[o] EXCEPT !.status = "IN_PROGRESS"]
    <2>1. Dispatch(o, s) /\ Sent(outbox[o]) = {}
      BY <1>1, <1>3 DEF ConfirmPayment, RowTrue
    <2>2. /\ s \in Row /\ s.status = "IN_PROGRESS"
          /\ s.completedSteps = saga[o].completedSteps
          /\ s.compensatedSteps = saga[o].compensatedSteps
      BY <1>1 DEF Row, Statuses, Active
    <2> HIDE DEF s
    <2>3. RowTrue(s, Sent(outbox[o]), Said(o)) /\ s.status \in Active
      BY <1>1, <2>1, <2>2 DEF RowTrue, Active
    <2> QED
      BY <2>1, <2>2, <2>3, DispatchIsTrue
  <1>4. ASSUME Resume(o) PROVE SystemInv'
    <2> DEFINE s == [FreshCounters(saga[o]) EXCEPT !.interventionReason = None]
    <2>1. Dispatch(o, s)
      BY <1>4 DEF Resume
    <2>2. saga[o].status \in Active
      <3>1. Progress(saga[o]) /\ Consistent(saga[o])
            /\ saga[o].status \notin {"ABSENT"} \cup Terminal
        BY <1>4 DEF Resume, IInv, OrderInv
      <3> QED
        BY <1>1, <3>1 DEF Consistent, ConsistentForward, Active, Row, Statuses
    <2>3. s \in Row /\ SameProgress(saga[o], s)
      BY <1>1 DEF FreshCounters, Row, SameProgress
    <2> HIDE DEF s
    <2>4. s.status \in Active
      BY <2>2, <2>3 DEF SameProgress
    <2> QED
      BY <2>1, <2>3, <2>4, SendingAgainIsTrue
  <1> QED
    BY <1>2, <1>3, <1>4 DEF Request

(* A result that is taken was told by the participant of its operation.     *)
LEMMA ToldBy ==
  ASSUME SystemInv, NEW o \in Orders, NEW n, NEW outcome \in {"SUCCEEDED", "REJECTED"},
         Answered(o, n, {outcome})
  PROVE  P!Says(outbox[o][n].operation, outcome) \in Said(o)[Owner(outbox[o][n].operation)]
  BY DEF Answered, SystemInv, OrderTrue, AnswerTrue

(* The steps of which a participant said the word.                          *)
SaidOf(o, word) == {step \in StepNames : word \in Said(o)[ServiceOf[step]]}

LEMMA ForwardIsTrue ==
  ASSUME IInv, SystemInv, NEW o \in Orders, NEW n, Arrives(o, n), Awaited(o, n),
         saga[o].status = "IN_PROGRESS",
         NEW f, f = FreshCounters(Cleared(saga[o]))
  PROVE  /\ f \in Row /\ f.status = "IN_PROGRESS"
         /\ f.compensatedSteps = <<>>
         /\ f.completedSteps = CompletedBefore[f.currentOperation]
         /\ outbox[o][n].operation = f.currentOperation
         /\ f.currentOperation \in ForwardOperations
         /\ Sent(outbox[o]) \subseteq UpTo[f.currentOperation]
         /\ \A i \in DOMAIN f.completedSteps : f.completedSteps[i] \in SaidOf(o, "DONE")
  <1>1. OrdersOK /\ inbox \in [Orders -> SUBSET Nat] /\ saga[o] \in Row
    BY IInvParts DEF Others, OrdersOK
  <1>2. /\ f \in Row /\ f.status = "IN_PROGRESS" /\ f.compensatedSteps = <<>>
        /\ f.completedSteps = CompletedBefore[f.currentOperation]
        /\ outbox[o][n].operation = f.currentOperation
    BY <1>1, ForwardFacts
  <1>3. f.currentOperation = saga[o].currentOperation
        /\ f.completedSteps = saga[o].completedSteps
    BY <1>1, FreshRow
  <1>4. \A i \in DOMAIN f.completedSteps : f.completedSteps[i] \in StepNames
    BY <1>2, ElementOfSeq DEF Row
  <1> QED
    BY <1>2, <1>3, <1>4 DEF SystemInv, OrderTrue, RowTrue, SaidOf, Row

LEMMA StepSucceededIsTrue ==
  ASSUME IInv, SystemInv, UNCHANGED environment, NEW o \in Orders, NEW n,
         Answered(o, n, {"SUCCEEDED"}), ReceiveStepSucceeded(o, n)
  PROVE  SystemInv'
  <1> DEFINE f == FreshCounters(Cleared(saga[o]))
             step == StepFor[f.currentOperation]
             s == [f EXCEPT !.completedSteps = Append(@, StepFor[f.currentOperation]),
                            !.currentOperation = Successor[f.currentOperation]]
  <1>1. /\ Arrives(o, n) /\ Awaited(o, n) /\ saga[o].status = "IN_PROGRESS"
        /\ outbox[o][n].operation # "FINALIZE_INVENTORY" /\ Dispatch(o, s)
    BY DEF ReceiveStepSucceeded
  <1> HIDE DEF f
  <1>2. /\ f \in Row /\ f.status = "IN_PROGRESS" /\ f.compensatedSteps = <<>>
        /\ outbox[o][n].operation = f.currentOperation
        /\ f.currentOperation \in ForwardOperations
        /\ Sent(outbox[o]) \subseteq UpTo[f.currentOperation]
        /\ \A i \in DOMAIN f.completedSteps : f.completedSteps[i] \in SaidOf(o, "DONE")
    BY <1>1, ForwardIsTrue DEF f
  <1>3. /\ step \in StepNames /\ Successor[f.currentOperation] \in ForwardOperations
        /\ f.currentOperation # "FINALIZE_INVENTORY"
    BY <1>1, <1>2, Tables
  <1>4. step \in SaidOf(o, "DONE")
    <2>1. f.currentOperation \in Operations
      BY <1>2 DEF Operations
    <2>2. P!Says(f.currentOperation, "SUCCEEDED") \in Said(o)[Owner(f.currentOperation)]
      BY <1>2, ToldBy
    <2> QED
      BY <1>2, <1>3, <2>1, <2>2, Vocabulary, OwnerTable DEF SaidOf
  <1> HIDE DEF step
  <1>5. /\ s \in Row /\ s.status = "IN_PROGRESS" /\ s.compensatedSteps = <<>>
        /\ s.completedSteps = Append(f.completedSteps, step)
        /\ s.currentOperation = Successor[f.currentOperation]
    <2>1. Append(f.completedSteps, step) \in Seq(StepNames)
      BY <1>2, <1>3 DEF Row
    <2> QED
      BY <1>2, <1>3, <2>1 DEF Row, step
  <1> HIDE DEF s
  <1>6. Sent(outbox[o]) \subseteq UpTo[s.currentOperation]
    BY <1>2, <1>3, <1>5, UpToTable
  <1>7. \A i \in DOMAIN s.completedSteps : s.completedSteps[i] \in SaidOf(o, "DONE")
    BY <1>2, <1>3, <1>4, <1>5, LongerAllTrue DEF Row
  <1>8. RowTrue(s, Sent(outbox[o]), Said(o)) /\ s.status \in Active
    BY <1>5, <1>6, <1>7 DEF RowTrue, SaidOf, Active
  <1> QED
    BY <1>1, <1>5, <1>8, DispatchIsTrue

LEMMA FinalizedIsTrue ==
  ASSUME IInv, SystemInv, UNCHANGED environment, NEW o \in Orders, NEW n,
         Answered(o, n, {"SUCCEEDED"}), ReceiveFinalized(o, n)
  PROVE  SystemInv'
  <1> DEFINE f == FreshCounters(Cleared(saga[o]))
             t == [f EXCEPT !.status = "COMPLETED", !.inventoryFinalized = TRUE]
  <1>1. /\ Arrives(o, n) /\ Awaited(o, n) /\ saga[o].status = "IN_PROGRESS"
        /\ outbox[o][n].operation = "FINALIZE_INVENTORY"
        /\ saga' = [saga EXCEPT ![o] = t] /\ outbox' = outbox
    BY DEF ReceiveFinalized, Save
  <1> HIDE DEF f
  <1>2. /\ f \in Row /\ f.compensatedSteps = <<>>
        /\ outbox[o][n].operation = f.currentOperation
        /\ Sent(outbox[o]) \subseteq UpTo[f.currentOperation]
        /\ \A i \in DOMAIN f.completedSteps : f.completedSteps[i] \in SaidOf(o, "DONE")
    BY <1>1, ForwardIsTrue DEF f
  <1>3. /\ t.status = "COMPLETED" /\ t.currentOperation = f.currentOperation
        /\ t.completedSteps = f.completedSteps /\ t.compensatedSteps = f.compensatedSteps
    BY <1>2 DEF Row
  <1> HIDE DEF t
  <1>4. "FINAL" \in Said(o)["inventory"]
    <2>1. "FINALIZE_INVENTORY" \in Operations
      BY DEF Operations, ForwardOperations
    <2> QED
      BY <1>1, <2>1, ToldBy, Vocabulary, OwnerTable
  <1>5. RowTrue(t, Sent(outbox[o]), Said(o))
    BY <1>2, <1>3, <1>4 DEF RowTrue, SaidOf
  <1> QED
    BY <1>1, <1>5, SaveIsTrue

LEMMA RejectedIsTrue ==
  ASSUME IInv, SystemInv, UNCHANGED environment, NEW o \in Orders, NEW n,
         Answered(o, n, {"REJECTED"}), ReceiveRejected(o, n)
  PROVE  SystemInv'
  <1> DEFINE f == FreshCounters(Cleared(saga[o]))
             failed == [f EXCEPT !.status = "FAILED"]
             turned == [f EXCEPT !.status = "COMPENSATING"]
  <1>1. /\ Arrives(o, n) /\ Awaited(o, n) /\ saga[o].status = "IN_PROGRESS"
        /\ \/ saga' = [saga EXCEPT ![o] = failed] /\ outbox' = outbox
           \/ Dispatch(o, turned)
    BY DEF ReceiveRejected, Save
  <1> HIDE DEF f
  <1>2. /\ f \in Row /\ f.compensatedSteps = <<>>
        /\ outbox[o][n].operation = f.currentOperation
        /\ f.currentOperation \in ForwardOperations
        /\ Sent(outbox[o]) \subseteq UpTo[f.currentOperation]
        /\ \A i \in DOMAIN f.completedSteps : f.completedSteps[i] \in SaidOf(o, "DONE")
    BY <1>1, ForwardIsTrue DEF f
  <1>3. "REFUSED" \in Said(o)[Owner(f.currentOperation)]
    <2>1. f.currentOperation \in Operations
      BY <1>2 DEF Operations
    <2> QED
      BY <1>2, <2>1, ToldBy, Vocabulary, OwnerTable
  <1>4. ASSUME NEW t, t \in {failed, turned} PROVE RowTrue(t, Sent(outbox[o]), Said(o))
    <2>1. /\ t.status \in {"FAILED", "COMPENSATING"} /\ t.currentOperation = f.currentOperation
          /\ t.completedSteps = f.completedSteps /\ t.compensatedSteps = f.compensatedSteps
      BY <1>2, <1>4 DEF Row
    <2> HIDE DEF failed, turned
    <2> QED
      BY <1>2, <1>3, <2>1 DEF RowTrue, SaidOf
  <1>5. turned \in Row /\ turned.status \in Active
    BY <1>2 DEF Row, Statuses, Active
  <1> HIDE DEF failed, turned
  <1> QED
    BY <1>1, <1>4, <1>5, SaveIsTrue, DispatchIsTrue

LEMMA CompensatedIsTrue ==
  ASSUME IInv, SystemInv, UNCHANGED environment, NEW o \in Orders, NEW n,
         Answered(o, n, {"SUCCEEDED"}), ReceiveCompensated(o, n)
  PROVE  SystemInv'
  <1> DEFINE r == saga[o]
             f == FreshCounters(Cleared(r))
             s == [f EXCEPT !.compensatedSteps = Append(@, NextUndo(r))]
  <1>1. Arrives(o, n) /\ Awaited(o, n) /\ r.status = "COMPENSATING" /\ Dispatch(o, s)
    BY DEF ReceiveCompensated
  <1>2. OrdersOK /\ inbox \in [Orders -> SUBSET Nat]
    BY IInvParts DEF Others
  <1>3. /\ r \in Row /\ ~Undone(r) /\ outbox[o][n].operation = NextOperation(r)
    BY <1>1, <1>2, AwaitedFacts
  <1>4. NextUndo(r) \in StepNames
    <2>1. UndoAfter[r.currentOperation] \in Seq(StepNames)
      BY <1>3, Tables DEF Row
    <2>2. Len(r.compensatedSteps) \in Nat
          /\ Len(r.compensatedSteps) < Len(UndoAfter[r.currentOperation])
      BY <1>3, <2>1 DEF Undone, Row
    <2> QED
      BY <2>1, <2>2, PrefixGrows DEF NextUndo
  <1>5. NextUndo(r) \in SaidOf(o, "UNDONE")
    <2>1. outbox[o][n].operation = ReverseOperation[NextUndo(r)]
      BY <1>1, <1>3 DEF NextOperation
    <2>2. outbox[o][n].operation \in CompensatingOperations
          /\ outbox[o][n].operation \in Operations
          /\ Owner(outbox[o][n].operation) = ServiceOf[NextUndo(r)]
      BY <1>4, <2>1, StepVocabulary DEF Operations
    <2> QED
      BY <1>4, <2>2, ToldBy, Vocabulary, OwnerTable DEF SaidOf
  <1>6. RowTrue(r, Sent(outbox[o]), Said(o))
    BY DEF SystemInv, OrderTrue
  <1>7. /\ s \in Row /\ s.status = "COMPENSATING"
        /\ s.currentOperation = r.currentOperation
        /\ s.completedSteps = r.completedSteps
        /\ s.compensatedSteps = Append(r.compensatedSteps, NextUndo(r))
    <2>1. Append(r.compensatedSteps, NextUndo(r)) \in Seq(StepNames)
      BY <1>3, <1>4 DEF Row
    <2>2. /\ f \in Row /\ f.status = r.status /\ f.currentOperation = r.currentOperation
          /\ f.completedSteps = r.completedSteps /\ f.compensatedSteps = r.compensatedSteps
      BY <1>3, FreshRow
    <2> HIDE DEF f
    <2> QED
      BY <1>1, <2>1, <2>2 DEF Row
  <1> HIDE DEF s, f
  <1>8. \A i \in DOMAIN r.compensatedSteps : r.compensatedSteps[i] \in SaidOf(o, "UNDONE")
    <2>1. \A i \in DOMAIN r.compensatedSteps : r.compensatedSteps[i] \in StepNames
      BY <1>3, ElementOfSeq DEF Row
    <2> QED
      BY <1>6, <2>1 DEF RowTrue, SaidOf
  <1>9. \A i \in DOMAIN s.compensatedSteps : s.compensatedSteps[i] \in SaidOf(o, "UNDONE")
    BY <1>3, <1>4, <1>5, <1>7, <1>8, LongerAllTrue DEF Row
  <1>10. RowTrue(s, Sent(outbox[o]), Said(o)) /\ s.status \in Active
    BY <1>1, <1>6, <1>7, <1>9 DEF RowTrue, SaidOf, Active
  <1> QED
    BY <1>1, <1>7, <1>10, DispatchIsTrue

LEMMA RetryableIsTrue ==
  ASSUME IInv, SystemInv, UNCHANGED environment, NEW o \in Orders, NEW n,
         ReceiveRetryable(o, n)
  PROVE  SystemInv'
  <1> DEFINE s == Cleared(saga[o])
             t == [s EXCEPT !.interventionReason = "COMMAND_RETRIES_EXHAUSTED",
                            !.leaseOwner = None]
  <1>1. /\ Arrives(o, n) /\ Awaited(o, n)
        /\ Dispatch(o, s) \/ (saga' = [saga EXCEPT ![o] = t] /\ outbox' = outbox)
    BY DEF ReceiveRetryable, Intervene, Save
  <1>2. saga[o] \in Row /\ saga[o].status \in Active
    BY <1>1, IInvParts, AwaitedFacts DEF Others
  <1>3. s \in Row /\ SameProgress(saga[o], s) /\ s.status \in Active
    BY <1>2, ClearedRow DEF SameProgress
  <1>4. SameProgress(saga[o], t)
    <2> HIDE DEF s
    <2> QED
      BY <1>3 DEF SameProgress, Row
  <1> HIDE DEF s, t
  <1>5. RowTrue(t, Sent(outbox[o]), Said(o))
    BY <1>4 DEF SystemInv, OrderTrue, RowTrue, SameProgress
  <1> QED
    BY <1>1, <1>3, <1>5, SendingAgainIsTrue, SaveIsTrue

LEMMA RecoverIsTrue ==
  ASSUME IInv, SystemInv, UNCHANGED environment,
         NEW w \in Workers, NEW o \in Orders, Recover(w, o)
  PROVE  SystemInv'
  <1>1. saga[o] \in Row /\ saga \in [Orders -> Row]
    BY DEF IInv, TypeOK
  <1>2. ASSUME NEW t, saga' = [saga EXCEPT ![o] = t], SameProgress(saga[o], t), outbox' = outbox
        PROVE  SystemInv'
    <2>1. RowTrue(t, Sent(outbox[o]), Said(o))
      BY <1>2 DEF SystemInv, OrderTrue, RowTrue, SameProgress
    <2> QED
      BY <1>2, <2>1, SaveIsTrue
  <1>3. CASE RecoverIntervene(w, o)
    <2> DEFINE t == [saga[o] EXCEPT !.interventionReason = RecoveryFault(o), !.leaseOwner = None]
    <2>1. saga' = [saga EXCEPT ![o] = t] /\ outbox' = outbox
      BY <1>3 DEF RecoverIntervene, Intervene, Save
    <2>2. SameProgress(saga[o], t)
      BY <1>1 DEF Row, SameProgress
    <2> QED
      BY <1>2, <2>1, <2>2
  <1>4. CASE RecoverWait(w, o)
    <2> DEFINE t == [saga[o] EXCEPT !.leaseOwner = None]
    <2>1. saga' = [saga EXCEPT ![o] = t] /\ outbox' = outbox
      BY <1>4 DEF RecoverWait, Save
    <2>2. SameProgress(saga[o], t)
      BY <1>1 DEF Row, SameProgress
    <2> QED
      BY <1>2, <2>1, <2>2
  <1>5. CASE RecoverResend(w, o)
    <2> DEFINE s == [saga[o] EXCEPT !.pendingMessageId = 0, !.recoveryAttempts = @ + 1]
    <2>1. Dispatch(o, s) /\ saga[o].status \in Active
      BY <1>5 DEF RecoverResend, HoldsLease
    <2>2. s \in Row /\ SameProgress(saga[o], s)
      <3>1. saga[o].recoveryAttempts + 1 \in Nat /\ 0 \in Nat
        BY <1>1 DEF Row
      <3>2. s = [saga[o] EXCEPT !.pendingMessageId = 0,
                                !.recoveryAttempts = saga[o].recoveryAttempts + 1]
        BY <1>1 DEF Row
      <3> HIDE DEF s
      <3> QED
        BY <1>1, <3>1, <3>2 DEF Row, SameProgress
    <2> HIDE DEF s
    <2>3. s.status \in Active
      BY <2>1, <2>2 DEF SameProgress
    <2> QED
      BY <2>1, <2>2, <2>3, SendingAgainIsTrue
  <1> QED
    BY <1>3, <1>4, <1>5 DEF Recover

LEMMA ClaimIsTrue ==
  ASSUME IInv, SystemInv, UNCHANGED environment,
         NEW w \in Workers, NEW batch, ClaimRecovery(w, batch)
  PROVE  SystemInv'
  <1>1. ASSUME NEW p \in Orders PROVE SameProgress(saga[p], saga'[p])
    <2>1. saga[p] \in Row
      BY DEF IInv, TypeOK
    <2>2. saga'[p] = saga[p] \/ saga'[p] = [saga[p] EXCEPT !.leaseOwner = w]
      BY DEF ClaimRecovery
    <2> QED
      BY <2>1, <2>2 DEF Row, SameProgress
  <1> QED
    BY <1>1, SameRowsAreTrue DEF ClaimRecovery

LEMMA RelayIsTrue ==
  ASSUME IInv, SystemInv, UNCHANGED environment,
         NEW o \in Orders, NEW n \in DOMAIN outbox[o], Relay(o, n)
  PROVE  SystemInv'
  <1>1. PICK d : outbox' = [outbox EXCEPT ![o][n].delivery = d]
    BY DEF Relay, RelayPublish, RelayMark
  <1>2. saga' = saga
    BY DEF Relay, RelayPublish, RelayMark
  <1>3. /\ outbox \in [Orders -> Seq(Command)] /\ outbox[o] \in Seq(Command)
        /\ \A m \in DOMAIN outbox[o] : outbox[o][m] \in Command
    BY ElementOfSeq DEF IInv, TypeOK
  <1>4. outbox'[o] = [outbox[o] EXCEPT ![n] = [outbox[o][n] EXCEPT !.delivery = d]]
        /\ \A p \in Orders \ {o} : outbox'[p] = outbox[p]
    BY <1>1, <1>3
  <1>5. DOMAIN outbox'[o] = DOMAIN outbox[o]
    BY <1>4
  <1>6. \A m \in DOMAIN outbox[o] : outbox'[o][m].operation = outbox[o][m].operation
    <2>1. [outbox[o][n] EXCEPT !.delivery = d].operation = outbox[o][n].operation
      BY <1>3 DEF Command
    <2>2. \A m \in DOMAIN outbox[o] :
            outbox'[o][m] = IF m = n THEN [outbox[o][n] EXCEPT !.delivery = d] ELSE outbox[o][m]
      BY <1>4
    <2> QED
      BY <2>1, <2>2
  <1>7. Sent(outbox'[o]) = Sent(outbox[o])
    BY <1>5, <1>6 DEF Sent
  <1>8. Grows(o)
    BY <1>2, <1>5, <1>6, <1>7 DEF Grows, SystemInv, OrderTrue
  <1> QED
    BY <1>2, <1>4, <1>8, GrowthIsTrue

-----------------------------------------------------------------------------
(* The composition.                                                        *)

LEMMA InitIsTrue == SystemInit => SystemInv
  <1> SUFFICES ASSUME SystemInit PROVE SystemInv
    OBVIOUS
  <1>1. /\ effect = [service \in Services |-> [o \in Orders |-> "none"]]
        /\ told = [service \in Services |-> [o \in Orders |-> {}]]
        /\ answers = [o \in Orders |-> {}]
    BY DEF SystemInit, P!Init, P!Services, Services
  <1>2. EnvironmentOK
    BY <1>1 DEF EnvironmentOK, Effects
  <1>3. ASSUME NEW o \in Orders PROVE OrderTrue(o)
    <2>1. outbox[o] = <<>> /\ saga[o] = NewRow("ABSENT", "COD")
      BY DEF SystemInit, Init
    <2>2. Sent(outbox[o]) = {}
      <3>1. DOMAIN <<>> = {}
        OBVIOUS
      <3> QED
        BY <2>1, <3>1 DEF Sent
    <2>3. /\ saga[o].status = "ABSENT"
          /\ saga[o].completedSteps = <<>> /\ saga[o].compensatedSteps = <<>>
      BY <2>1 DEF NewRow
    <2>4. RowTrue(saga[o], {}, Said(o))
      BY <2>3 DEF RowTrue
    <2>5. \A service \in Services :
            ServiceTrue(service, effect[service][o], told[service][o], {})
      BY <1>1 DEF ServiceTrue, Effects
    <2> QED
      BY <1>1, <2>2, <2>4, <2>5 DEF OrderTrue
  <1> QED
    BY <1>2, <1>3 DEF SystemInv

(* Every step of the system is one of the orchestrator, or none.            *)
LEMMA SystemNextIsNext == [SystemNext]_systemVars => [Next]_vars
  <1> SUFFICES ASSUME [SystemNext]_systemVars PROVE [Next]_vars
    OBVIOUS
  <1>1. CASE UNCHANGED systemVars
    BY <1>1 DEF systemVars
  <1>2. ASSUME NEW o \in Orders, NEW n \in DOMAIN outbox[o], Serve(o, n)
        PROVE  UNCHANGED vars
    BY <1>2 DEF Serve, Execute, RespondDefinitively, RespondRetryable, Respond
  <1>3. ASSUME NEW o \in Orders, NEW n \in DOMAIN outbox[o], ReceiveAnswer(o, n)
        PROVE  Receive(o, n)
    BY <1>3 DEF ReceiveAnswer, Receive
  <1>4. CASE Orchestrate
    BY <1>3, <1>4 DEF Orchestrate, Next
  <1> QED
    BY <1>1, <1>2, <1>4 DEF SystemNext

LEMMA ReceiveAnswerIsTrue ==
  ASSUME IInv, SystemInv, UNCHANGED environment,
         NEW o \in Orders, NEW n \in DOMAIN outbox[o], ReceiveAnswer(o, n)
  PROVE  SystemInv'
  <1>1. CASE ReceiveStale(o, n)
    BY <1>1, SameRowsAreTrue DEF ReceiveStale, SameProgress
  <1>2. CASE Answered(o, n, {"SUCCEEDED"}) /\ ReceiveCompensated(o, n)
    BY <1>2, CompensatedIsTrue
  <1>3. CASE Answered(o, n, {"SUCCEEDED"}) /\ ReceiveStepSucceeded(o, n)
    BY <1>3, StepSucceededIsTrue
  <1>4. CASE Answered(o, n, {"SUCCEEDED"}) /\ ReceiveFinalized(o, n)
    BY <1>4, FinalizedIsTrue
  <1>5. CASE Answered(o, n, {"REJECTED"}) /\ ReceiveRejected(o, n)
    BY <1>5, RejectedIsTrue
  <1>6. CASE ReceiveRetryable(o, n)
    BY <1>6, RetryableIsTrue
  <1> QED
    BY <1>1, <1>2, <1>3, <1>4, <1>5, <1>6 DEF ReceiveAnswer

LEMMA SystemNextIsTrue == IInv /\ SystemInv /\ [SystemNext]_systemVars => SystemInv'
  <1> SUFFICES ASSUME IInv, SystemInv, [SystemNext]_systemVars PROVE SystemInv'
    OBVIOUS
  <1>1. ASSUME saga' = saga, outbox' = outbox, UNCHANGED environment PROVE SystemInv'
    BY <1>1, SameRowsAreTrue DEF SameProgress
  <1>2. CASE UNCHANGED systemVars
    BY <1>1, <1>2 DEF systemVars, vars
  <1>3. ASSUME NEW o \in Orders, NEW n \in DOMAIN outbox[o], Serve(o, n) PROVE SystemInv'
    BY <1>3, ExecutePreserves, RespondDefinitivelyPreserves, RespondRetryablePreserves
       DEF Serve
  <1>4. ASSUME Orchestrate, UNCHANGED environment PROVE SystemInv'
    <2>1. ASSUME NEW o \in Orders, Request(o) PROVE SystemInv'
      BY <1>4, <2>1, RequestIsTrue
    <2>2. ASSUME NEW o \in Orders, NEW n \in DOMAIN outbox[o], ReceiveAnswer(o, n)
          PROVE  SystemInv'
      BY <1>4, <2>2, ReceiveAnswerIsTrue
    <2>3. ASSUME NEW o \in Orders, NEW n \in DOMAIN outbox[o], Relay(o, n)
          PROVE  SystemInv'
      BY <1>4, <2>3, RelayIsTrue
    <2>4. ASSUME NEW w \in Workers, NEW batch \in SUBSET Claimable, ClaimRecovery(w, batch)
          PROVE  SystemInv'
      BY <1>4, <2>4, ClaimIsTrue
    <2>5. ASSUME NEW w \in Workers, NEW o \in holding[w], RecoverClaim(w, o)
          PROVE  SystemInv'
      <3>1. o \in Orders
        BY IInvParts DEF Others
      <3>2. CASE RecoverFenced(w, o)
        BY <1>1, <1>4, <3>2 DEF RecoverFenced
      <3> QED
        BY <1>4, <2>5, <3>1, <3>2, RecoverIsTrue DEF RecoverClaim
    <2>6. ASSUME \/ \E o \in Orders : PassTime(o)
                 \/ \E w \in Workers : AbandonScan(w)
          PROVE  SystemInv'
      <3>1. saga' = saga /\ outbox' = outbox
        BY <2>6 DEF PassTime, PassNextAttempt, PassResponseDeadline, PassLease, AbandonScan
      <3> QED
        BY <1>1, <1>4, <3>1
    <2> QED
      BY <1>4, <2>1, <2>2, <2>3, <2>4, <2>5, <2>6 DEF Orchestrate
  <1> QED
    BY <1>2, <1>3, <1>4 DEF SystemNext

-----------------------------------------------------------------------------
(* What the invariant says of an order that has ended.                     *)

LEMMA EndingsFollow == IInv /\ SystemInv => EndingsTrue
  <1> SUFFICES ASSUME IInv, SystemInv, NEW o \in Orders
               PROVE  /\ saga[o].status = "COMPLETED" =>
                           /\ effect["payment"][o] = "done"
                           /\ effect["inventory"][o] = "final"
                           /\ effect["shipping"][o] = "done"
                      /\ saga[o].status = "FAILED" =>
                           \A service \in Services :
                             effect[service][o] \in {"none", "void", "undone"}
    BY DEF EndingsTrue
  <1> DEFINE far == [service \in Services |-> effect[service][o]]
  <1>1. RowTrue(saga[o], Sent(outbox[o]), Said(o))
    BY DEF SystemInv, OrderTrue
  <1>2. \A service \in Services :
          ServiceTrue(service, far[service], Said(o)[service], Sent(outbox[o]))
    BY DEF SystemInv, OrderTrue, Said
  <1>3. saga[o].currentOperation \in ForwardOperations /\ Progress(saga[o])
    BY DEF IInv, TypeOK, Row, OrderInv
  <1> HIDE DEF far
  <1>4. CASE saga[o].status = "COMPLETED"
    <2>1. far["payment"] = "done" /\ far["inventory"] = "final" /\ far["shipping"] = "done"
      BY <1>1, <1>2, <1>3, <1>4, CompletedHoldsAll DEF Progress
    <2> QED
      BY <1>4, <2>1 DEF far, Services
  <1>5. CASE saga[o].status = "FAILED"
    <2>1. \A service \in Services : far[service] \in {"none", "void", "undone"}
      BY <1>1, <1>2, <1>3, <1>5, FailedHoldsNone DEF Progress
    <2> QED
      BY <1>5, <2>1 DEF far
  <1> QED
    BY <1>4, <1>5

-----------------------------------------------------------------------------
(* What the order page shows of a row.                                     *)

DoneOf(s) == {step \in StepNames : Reached(s, step)}
UndoneOf(s) == {step \in StepNames : Reversed(s, step)}

StepsBefore ==
  [CHARGE_PAYMENT     |-> {},
   RESERVE_INVENTORY  |-> {"PAYMENT"},
   CREATE_SHIPMENT    |-> {"PAYMENT", "INVENTORY"},
   FINALIZE_INVENTORY |-> StepNames]

(* The rows there are, by the steps they list.                              *)
RowShape(s) ==
  LET current == s.currentOperation
      done == DoneOf(s)
      undone == UndoneOf(s)
  IN
  /\ s.status \in {"ABSENT", "PENDING_PAYMENT"} =>
       current = "CHARGE_PAYMENT" /\ done = {} /\ undone = {} /\ ~s.inventoryFinalized
  /\ s.status = "IN_PROGRESS" =>
       done = StepsBefore[current] /\ undone = {} /\ ~s.inventoryFinalized
  /\ s.status = "COMPENSATING" =>
       /\ ~s.inventoryFinalized
       /\ \/ /\ current = "RESERVE_INVENTORY" /\ done = {"PAYMENT"} /\ undone = {}
             /\ NextOperation(s) = "REFUND_PAYMENT" /\ YetToCome(s) = {}
          \/ /\ current = "CREATE_SHIPMENT" /\ done = {"PAYMENT", "INVENTORY"} /\ undone = {}
             /\ NextOperation(s) = "RELEASE_INVENTORY" /\ YetToCome(s) = {"REFUND_PAYMENT"}
          \/ /\ current = "CREATE_SHIPMENT" /\ done = {"PAYMENT", "INVENTORY"}
             /\ undone = {"INVENTORY"}
             /\ NextOperation(s) = "REFUND_PAYMENT" /\ YetToCome(s) = {}
  /\ s.status = "COMPLETED" => done = StepNames /\ undone = {} /\ s.inventoryFinalized
  /\ s.status = "FAILED" =>
       /\ current # "FINALIZE_INVENTORY" /\ ~s.inventoryFinalized
       /\ done = StepsBefore[current] /\ undone = done

LEMMA ListedSteps ==
  ASSUME NEW s
  PROVE  /\ \A operation \in ForwardOperations :
              s.completedSteps = CompletedBefore[operation] => DoneOf(s) = StepsBefore[operation]
         /\ \A operation \in ForwardOperations \ {"FINALIZE_INVENTORY"} :
              s.compensatedSteps = UndoAfter[operation] => UndoneOf(s) = StepsBefore[operation]
         /\ s.compensatedSteps = <<>> => UndoneOf(s) = {}
  <1>1. s.completedSteps = <<>> => DoneOf(s) = {}
    BY DEF DoneOf, Reached
  <1>2. s.completedSteps = <<"PAYMENT">> => DoneOf(s) = {"PAYMENT"}
    BY DEF DoneOf, Reached, StepNames
  <1>3. s.completedSteps = <<"PAYMENT", "INVENTORY">> => DoneOf(s) = {"PAYMENT", "INVENTORY"}
    BY DEF DoneOf, Reached, StepNames
  <1>4. s.completedSteps = Steps => DoneOf(s) = StepNames
    BY DEF DoneOf, Reached, StepNames, Steps
  <1>5. s.compensatedSteps = <<>> => UndoneOf(s) = {}
    BY DEF UndoneOf, Reversed
  <1>6. s.compensatedSteps = <<"PAYMENT">> => UndoneOf(s) = {"PAYMENT"}
    BY DEF UndoneOf, Reversed, StepNames
  <1>7. s.compensatedSteps = <<"INVENTORY", "PAYMENT">> => UndoneOf(s) = {"PAYMENT", "INVENTORY"}
    BY DEF UndoneOf, Reversed, StepNames
  <1>8. /\ CompletedBefore["CHARGE_PAYMENT"] = <<>>
        /\ CompletedBefore["RESERVE_INVENTORY"] = <<"PAYMENT">>
        /\ CompletedBefore["CREATE_SHIPMENT"] = <<"PAYMENT", "INVENTORY">>
        /\ CompletedBefore["FINALIZE_INVENTORY"] = Steps
    BY DEF CompletedBefore
  <1>9. /\ UndoAfter["CHARGE_PAYMENT"] = <<>>
        /\ UndoAfter["RESERVE_INVENTORY"] = <<"PAYMENT">>
        /\ UndoAfter["CREATE_SHIPMENT"] = <<"INVENTORY", "PAYMENT">>
    BY DEF UndoAfter
  <1>10. /\ StepsBefore["CHARGE_PAYMENT"] = {}
         /\ StepsBefore["RESERVE_INVENTORY"] = {"PAYMENT"}
         /\ StepsBefore["CREATE_SHIPMENT"] = {"PAYMENT", "INVENTORY"}
         /\ StepsBefore["FINALIZE_INVENTORY"] = StepNames
    BY DEF StepsBefore
  <1>11. \A operation \in ForwardOperations :
           s.completedSteps = CompletedBefore[operation] => DoneOf(s) = StepsBefore[operation]
    BY <1>1, <1>2, <1>3, <1>4, <1>8, <1>10 DEF ForwardOperations
  <1>12. \A operation \in ForwardOperations \ {"FINALIZE_INVENTORY"} :
           s.compensatedSteps = UndoAfter[operation] => UndoneOf(s) = StepsBefore[operation]
    BY <1>5, <1>6, <1>7, <1>9, <1>10 DEF ForwardOperations
  <1> QED
    BY <1>5, <1>11, <1>12

LEMMA CompensationShape ==
  ASSUME NEW s \in Row, s.status = "COMPENSATING", ConsistentCompensation(s), ~Undone(s)
  PROVE  RowShape(s)
  <1> DEFINE k == Len(s.compensatedSteps)
  <1>1. k \in Nat /\ s.compensatedSteps \in Seq(StepNames)
    BY DEF Row
  <1>2. /\ s.currentOperation \in {"RESERVE_INVENTORY", "CREATE_SHIPMENT"}
        /\ ~s.inventoryFinalized
        /\ DoneOf(s) = StepsBefore[s.currentOperation]
    BY Tables, ListedSteps DEF ConsistentCompensation, Row
  <1>3. k < Len(UndoAfter[s.currentOperation])
    <2>1. UndoAfter[s.currentOperation] \in Seq(StepNames)
      BY Tables DEF Row
    <2> QED
      BY <1>1, <2>1 DEF Undone
  <1>4. CASE s.currentOperation = "RESERVE_INVENTORY"
    <2>1. UndoAfter[s.currentOperation] = <<"PAYMENT">>
      BY <1>4 DEF UndoAfter
    <2>2. k = 0
      BY <1>1, <1>3, <2>1
    <2>3. s.compensatedSteps = <<>>
      BY <1>1, <2>2
    <2>4. NextOperation(s) = "REFUND_PAYMENT"
      BY <2>1, <2>2 DEF NextOperation, NextUndo, ReverseOperation
    <2>5. YetToCome(s) = {}
      BY <2>1, <2>2 DEF YetToCome
    <2> QED
      BY <1>2, <1>4, <2>3, <2>4, <2>5, ListedSteps DEF RowShape, StepsBefore
  <1>5. CASE s.currentOperation = "CREATE_SHIPMENT"
    <2>1. UndoAfter[s.currentOperation] = <<"INVENTORY", "PAYMENT">>
      BY <1>5 DEF UndoAfter
    <2>2. CASE k = 0
      <3>1. s.compensatedSteps = <<>>
        BY <1>1, <2>2
      <3>2. NextOperation(s) = "RELEASE_INVENTORY"
        BY <2>1, <2>2 DEF NextOperation, NextUndo, ReverseOperation
      <3>3. YetToCome(s) = {"REFUND_PAYMENT"}
        <4>1. YetToCome(s) = {ReverseOperation[UndoAfter[s.currentOperation][i]] : i \in 2..2}
          BY <2>1, <2>2 DEF YetToCome
        <4> QED
          BY <2>1, <4>1 DEF ReverseOperation
      <3> QED
        BY <1>2, <1>5, <3>1, <3>2, <3>3, ListedSteps DEF RowShape, StepsBefore
    <2>3. CASE k = 1
      <3>1. UndoneOf(s) = {"INVENTORY"}
        <4>1. s.compensatedSteps = SubSeq(UndoAfter[s.currentOperation], 1, 1)
          BY <2>3 DEF ConsistentCompensation
        <4>2. s.compensatedSteps[1] = "INVENTORY"
          BY <2>1, <4>1
        <4>3. DOMAIN s.compensatedSteps = {1}
          BY <1>1, <2>3
        <4> QED
          BY <4>2, <4>3 DEF UndoneOf, Reversed, StepNames
      <3>2. NextOperation(s) = "REFUND_PAYMENT"
        BY <2>1, <2>3 DEF NextOperation, NextUndo, ReverseOperation
      <3>3. YetToCome(s) = {}
        BY <2>1, <2>3 DEF YetToCome
      <3> QED
        BY <1>2, <1>5, <3>1, <3>2, <3>3, ListedSteps DEF RowShape, StepsBefore
    <2> QED
      <3>1. Len(UndoAfter[s.currentOperation]) = 2
        BY <2>1
      <3> HIDE DEF k
      <3> QED
        BY <1>1, <1>3, <2>2, <2>3, <3>1
  <1> QED
    BY <1>2, <1>4, <1>5

LEMMA EveryRowHasShape ==
  ASSUME NEW s \in Row, Progress(s)
  PROVE  RowShape(s)
  <1>1. CASE s.status \in {"ABSENT", "PENDING_PAYMENT"}
    <2>1. s.completedSteps = CompletedBefore["CHARGE_PAYMENT"]
      BY <1>1 DEF Progress, CompletedBefore
    <2> QED
      BY <1>1, <2>1, ListedSteps DEF Progress, RowShape, StepsBefore, ForwardOperations
  <1>2. CASE s.status = "IN_PROGRESS"
    BY <1>2, ListedSteps DEF Progress, Active, Consistent, ConsistentForward, RowShape, Row
  <1>3. CASE s.status = "COMPENSATING"
    BY <1>3, CompensationShape DEF Progress, Active, Consistent
  <1>4. CASE s.status = "COMPLETED"
    <2>1. s.completedSteps = CompletedBefore["FINALIZE_INVENTORY"]
      BY <1>4 DEF Progress, CompletedBefore
    <2> QED
      BY <1>4, <2>1, ListedSteps DEF Progress, RowShape, StepsBefore, ForwardOperations
  <1>5. CASE s.status = "FAILED"
    BY <1>5, ListedSteps DEF Progress, RowShape, Row
  <1> QED
    BY <1>1, <1>2, <1>3, <1>4, <1>5 DEF Row, Statuses, Active, Terminal

(* The page's own tables, read off the shape.                               *)
LEMMA PageTables ==
  ASSUME NEW s \in Row, Progress(s)
  PROVE  /\ TurnedAround(s) <=>
              \/ s.status = "COMPENSATING"
              \/ s.status = "FAILED" /\ DoneOf(s) # {}
         /\ \A step \in StepNames :
              /\ Reached(s, step) <=> step \in DoneOf(s)
              /\ Reversed(s, step) <=> step \in UndoneOf(s)
              /\ Succeeded(s, StepOperation[step]) <=> step \in DoneOf(s)
              /\ IsNext(s, step) <=>
                   /\ step \in DoneOf(s) \ UndoneOf(s)
                   /\ step = "INVENTORY" => "SHIPPING" \notin DoneOf(s) \ UndoneOf(s)
                   /\ step = "PAYMENT" => DoneOf(s) \ UndoneOf(s) = {"PAYMENT"}
         /\ Executing(s) \in Working
  <1>1. \A step \in StepNames :
          /\ Reached(s, step) <=> step \in DoneOf(s)
          /\ Reversed(s, step) <=> step \in UndoneOf(s)
    BY DEF DoneOf, UndoneOf
  <1>2. \A step \in StepNames : Succeeded(s, StepOperation[step]) <=> step \in DoneOf(s)
    BY <1>1 DEF Succeeded, StepOperation, StepFor, StepNames
  <1>3. s.compensatedSteps # <<>> =>
          \/ s.status = "COMPENSATING"
          \/ s.status = "FAILED" /\ DoneOf(s) # {}
    <2>1. CASE s.status = "FAILED"
      <3>1. s.compensatedSteps = UndoAfter[s.currentOperation]
            /\ s.completedSteps = CompletedBefore[s.currentOperation]
        BY <2>1 DEF Progress
      <3>2. s.compensatedSteps # <<>> =>
              s.currentOperation \in {"RESERVE_INVENTORY", "CREATE_SHIPMENT"}
        BY <3>1, Tables DEF Row
      <3> QED
        <4>1. DoneOf(s) = StepsBefore[s.currentOperation]
          BY <3>1, ListedSteps DEF Row
        <4> HIDE DEF DoneOf
        <4> QED
          BY <2>1, <3>2, <4>1 DEF StepsBefore
    <2> QED
      <3>1. s.status \in {"ABSENT", "PENDING_PAYMENT", "IN_PROGRESS", "COMPLETED"} =>
              s.compensatedSteps = <<>>
        BY DEF Progress, Active, Consistent, ConsistentForward
      <3> QED
        BY <2>1, <3>1 DEF Row, Statuses, Active, Terminal
  <1>4. s.status = "FAILED" => (s.completedSteps # <<>> <=> DoneOf(s) # {})
    <2> SUFFICES ASSUME s.status = "FAILED"
                 PROVE  s.completedSteps # <<>> <=> DoneOf(s) # {}
      OBVIOUS
    <2>1. s.completedSteps = CompletedBefore[s.currentOperation]
      BY DEF Progress
    <2> QED
      <3>1. DoneOf(s) = StepsBefore[s.currentOperation]
            /\ s.currentOperation \in ForwardOperations
        BY <2>1, ListedSteps DEF Row
      <3>2. s.completedSteps = <<>> <=> s.currentOperation = "CHARGE_PAYMENT"
        BY <2>1, <3>1, Tables
      <3>3. StepsBefore[s.currentOperation] = {} <=> s.currentOperation = "CHARGE_PAYMENT"
        BY <3>1 DEF StepsBefore, ForwardOperations, StepNames
      <3> QED
        BY <3>1, <3>2, <3>3
  <1>5. /\ DOMAIN Reverse = 1..3
        /\ Reverse[1] = "SHIPPING" /\ Reverse[2] = "INVENTORY" /\ Reverse[3] = "PAYMENT"
    BY DEF Reverse
  <1>6. \A i \in 1..3 : i \in ToUndo(s) <=> Reverse[i] \in DoneOf(s) \ UndoneOf(s)
    BY <1>1, <1>5 DEF ToUndo, StepNames
  <1>7. ASSUME NEW step \in StepNames
        PROVE  IsNext(s, step) <=>
                 /\ step \in DoneOf(s) \ UndoneOf(s)
                 /\ step = "INVENTORY" => "SHIPPING" \notin DoneOf(s) \ UndoneOf(s)
                 /\ step = "PAYMENT" => DoneOf(s) \ UndoneOf(s) = {"PAYMENT"}
    <2>1. ToUndo(s) \subseteq 1..3
      BY <1>5 DEF ToUndo
    <2>2. DoneOf(s) \subseteq StepNames
      BY DEF DoneOf
    <2>3. IsNext(s, step) <=> \E i \in 1..3 : /\ i \in ToUndo(s) /\ Reverse[i] = step
                                              /\ \A j \in 1..3 : j \in ToUndo(s) => i <= j
      BY <2>1 DEF IsNext
    <2>4. CASE step = "SHIPPING"
      BY <1>5, <1>6, <2>3, <2>4
    <2>5. CASE step = "INVENTORY"
      BY <1>5, <1>6, <2>3, <2>5
    <2>6. CASE step = "PAYMENT"
      BY <1>5, <1>6, <2>2, <2>3, <2>6 DEF StepNames
    <2> QED
      BY <2>4, <2>5, <2>6 DEF StepNames
  <1>8. Executing(s) \in Working
    BY DEF Executing, Working
  <1> QED
    BY <1>1, <1>2, <1>3, <1>4, <1>7, <1>8 DEF TurnedAround

LEMMA ForwardShown ==
  ASSUME NEW s \in Row, Progress(s), RowShape(s)
  PROVE  /\ \A step \in StepNames :
              Forward(s, StepOperation[step]) =
                IF step \in DoneOf(s) THEN "Succeeded"
                ELSE IF s.currentOperation # StepOperation[step] THEN "Pending"
                ELSE IF s.status \in {"COMPENSATING", "FAILED"} THEN "Failed"
                ELSE IF s.status = "IN_PROGRESS" THEN Executing(s)
                ELSE "Pending"
         /\ Forward(s, "FINALIZE_INVENTORY") = "Succeeded" <=> s.status = "COMPLETED"
         /\ \A operation \in ForwardOperations :
              Forward(s, operation) \in Working <=>
                s.status = "IN_PROGRESS" /\ operation = s.currentOperation
  <1>1. /\ TurnedAround(s) => s.status \in {"COMPENSATING", "FAILED"}
        /\ s.status = "COMPENSATING" => TurnedAround(s)
        /\ \A step \in StepNames : Succeeded(s, StepOperation[step]) <=> step \in DoneOf(s)
        /\ Executing(s) \in Working
    BY PageTables
  <1>2. Succeeded(s, "FINALIZE_INVENTORY") <=> s.inventoryFinalized
    BY DEF Succeeded
  <1>3. s.inventoryFinalized <=> s.status = "COMPLETED"
    BY DEF RowShape, Row, Statuses, Active, Terminal
  <1>4. \A step \in StepNames :
          StepOperation[step] \in ForwardOperations \ {"FINALIZE_INVENTORY"}
    BY DEF StepNames, StepOperation, ForwardOperations
  <1>5. \A operation \in ForwardOperations \ {"FINALIZE_INVENTORY"} :
          \E step \in StepNames : operation = StepOperation[step]
    BY DEF StepNames, StepOperation, ForwardOperations
  <1>6. "InHand" \in Working /\ "Paused" \in Working
        /\ "Succeeded" \notin Working /\ "Pending" \notin Working /\ "Failed" \notin Working
        /\ "NotNeeded" \notin Working
    BY DEF Working
  <1>7. s.status = "IN_PROGRESS" =>
          DoneOf(s) = StepsBefore[s.currentOperation] /\ ~s.inventoryFinalized
    BY DEF RowShape
  <1>8. \A step \in StepNames : step \notin StepsBefore[StepOperation[step]]
    BY DEF StepNames, StepOperation, StepsBefore
  <1> HIDE DEF DoneOf
  <1>9. \A step \in StepNames :
          Forward(s, StepOperation[step]) =
            IF step \in DoneOf(s) THEN "Succeeded"
            ELSE IF s.currentOperation # StepOperation[step] THEN "Pending"
            ELSE IF s.status \in {"COMPENSATING", "FAILED"} THEN "Failed"
            ELSE IF s.status = "IN_PROGRESS" THEN Executing(s)
            ELSE "Pending"
    <2> SUFFICES ASSUME NEW step \in StepNames
                 PROVE  Forward(s, StepOperation[step]) =
                          IF step \in DoneOf(s) THEN "Succeeded"
                          ELSE IF s.currentOperation # StepOperation[step] THEN "Pending"
                          ELSE IF s.status \in {"COMPENSATING", "FAILED"} THEN "Failed"
                          ELSE IF s.status = "IN_PROGRESS" THEN Executing(s)
                          ELSE "Pending"
      OBVIOUS
    <2>1. s.status = "FAILED" \/ TurnedAround(s) <=> s.status \in {"COMPENSATING", "FAILED"}
      BY <1>1
    <2>2. Succeeded(s, StepOperation[step]) <=> step \in DoneOf(s)
      BY <1>1
    <2>3. StepOperation[step] # "FINALIZE_INVENTORY"
      BY <1>4
    <2> QED
      BY <2>1, <2>2, <2>3 DEF Forward
  <1>10. Forward(s, "FINALIZE_INVENTORY") = "Succeeded" <=> s.status = "COMPLETED"
    BY <1>1, <1>2, <1>3, <1>6 DEF Forward
  <1>11. ASSUME NEW operation \in ForwardOperations
         PROVE  Forward(s, operation) \in Working <=>
                  s.status = "IN_PROGRESS" /\ operation = s.currentOperation
    <2>1. CASE operation = "FINALIZE_INVENTORY"
      BY <1>1, <1>2, <1>3, <1>6, <1>7, <2>1 DEF Forward
    <2>2. CASE operation # "FINALIZE_INVENTORY"
      BY <1>1, <1>5, <1>6, <1>7, <1>8, <1>9, <2>2
    <2> QED
      BY <2>1, <2>2
  <1> QED
    BY <1>9, <1>10, <1>11

LEMMA CompensationShown ==
  ASSUME NEW s \in Row, Progress(s), RowShape(s), NEW step \in StepNames
  PROVE  /\ Compensation(s, step) = "NotShown" => s.status \notin {"COMPENSATING", "FAILED"} \/ DoneOf(s) = {}
         /\ Compensation(s, step) = "Succeeded" => step \in UndoneOf(s)
         /\ Compensation(s, step) = "NotNeeded" =>
              step \notin DoneOf(s) /\ s.status \in {"COMPENSATING", "FAILED"}
         /\ Compensation(s, step) = "Pending" =>
              s.status = "COMPENSATING" /\ step \in DoneOf(s) /\ ReverseOperation[step] \in YetToCome(s)
         /\ Compensation(s, step) \in Working <=>
              s.status = "COMPENSATING" /\ ReverseOperation[step] = NextOperation(s)
  <1>1. /\ TurnedAround(s) <=>
             \/ s.status = "COMPENSATING"
             \/ s.status = "FAILED" /\ DoneOf(s) # {}
        /\ Reached(s, step) <=> step \in DoneOf(s)
        /\ Reversed(s, step) <=> step \in UndoneOf(s)
        /\ IsNext(s, step) <=>
             /\ step \in DoneOf(s) \ UndoneOf(s)
             /\ step = "INVENTORY" => "SHIPPING" \notin DoneOf(s) \ UndoneOf(s)
             /\ step = "PAYMENT" => DoneOf(s) \ UndoneOf(s) = {"PAYMENT"}
        /\ Executing(s) \in Working
    BY PageTables
  <1>2. "Succeeded" \notin Working /\ "Pending" \notin Working
        /\ "NotShown" \notin Working /\ "NotNeeded" \notin Working
    BY DEF Working
  <1>3. s.status = "COMPENSATING" =>
          /\ IsNext(s, step) <=> ReverseOperation[step] = NextOperation(s)
          /\ step \in DoneOf(s) \ UndoneOf(s) /\ ~IsNext(s, step) =>
               ReverseOperation[step] \in YetToCome(s)
    BY <1>1 DEF RowShape, StepNames, ReverseOperation
  <1>4. s.status = "FAILED" => UndoneOf(s) = DoneOf(s)
    BY DEF RowShape
  <1> HIDE DEF DoneOf, UndoneOf
  <1>5. Executing(s) # "Succeeded" /\ Executing(s) # "Pending"
        /\ Executing(s) # "NotShown" /\ Executing(s) # "NotNeeded"
    BY DEF Executing
  <1> QED
    BY <1>1, <1>2, <1>3, <1>4, <1>5 DEF Compensation

LEMMA InHandShown ==
  ASSUME NEW s \in Row, Progress(s), RowShape(s)
  PROVE  ShownInHand(s) = IF s.status \in Active THEN {NextOperation(s)} ELSE {}
  <1>1. {operation \in ForwardOperations : Forward(s, operation) \in Working} =
          IF s.status = "IN_PROGRESS" THEN {s.currentOperation} ELSE {}
    BY ForwardShown DEF Row
  <1>2. \A step \in StepNames :
          Compensation(s, step) \in Working <=>
            s.status = "COMPENSATING" /\ ReverseOperation[step] = NextOperation(s)
    BY CompensationShown
  <1>3. s.status = "COMPENSATING" => \E step \in StepNames : ReverseOperation[step] = NextOperation(s)
    BY DEF RowShape, StepNames, ReverseOperation
  <1>4. {ReverseOperation[step] : step \in {t \in StepNames : Compensation(s, t) \in Working}} =
          IF s.status = "COMPENSATING" THEN {NextOperation(s)} ELSE {}
    BY <1>2, <1>3
  <1>5. s.status = "IN_PROGRESS" => NextOperation(s) = s.currentOperation
    BY DEF NextOperation
  <1> QED
    BY <1>1, <1>4, <1>5 DEF ShownInHand, Active

(* Where a step is at its participant, as far as the row tells.             *)
LEMMA FarFromRow ==
  ASSUME NEW s \in Row, RowShape(s),
         NEW sent, NEW said, NEW far, RowTrue(s, sent, said),
         \A operation \in YetToCome(s) : operation \notin sent,
         NEW step \in StepNames,
         ServiceTrue(ServiceOf[step], far, said[ServiceOf[step]], sent)
  PROVE  /\ step \in DoneOf(s) => far \in {"done", "undone", "final"}
         /\ step \in UndoneOf(s) => far \in {"void", "undone"}
         /\ step \in DoneOf(s) /\ s.status \notin {"COMPENSATING", "FAILED"} =>
              far \in {"done", "final"}
         /\ s.status = "COMPENSATING" /\ step \in DoneOf(s)
              /\ ReverseOperation[step] \in YetToCome(s) => far = "done"
         /\ step \notin DoneOf(s) =>
              \/ far \in {"none", "void"}
              \/ s.status = "IN_PROGRESS" /\ s.currentOperation = StepOperation[step]
  <1>1. /\ ReverseOperation[step] = UndoFor[ServiceOf[step]]
        /\ StepOperation[step] = DoFor[ServiceOf[step]]
        /\ Owner(StepOperation[step]) = ServiceOf[step]
        /\ StepOperation[step] \in ForwardOperations
        /\ ReverseOperation[step] \notin ForwardOperations
    BY DEF StepNames, ReverseOperation, UndoFor, ServiceOf, StepOperation, DoFor, Owner,
           ForwardOperations
  <1>2. step \in DoneOf(s) => "DONE" \in said[ServiceOf[step]]
    BY DEF RowTrue, DoneOf, Reached
  <1>3. step \in UndoneOf(s) => "UNDONE" \in said[ServiceOf[step]]
    BY DEF RowTrue, UndoneOf, Reversed
  <1>4. step \in DoneOf(s) => s.status \notin {"ABSENT", "PENDING_PAYMENT"}
    BY DEF RowShape
  <1>5. s.currentOperation \in ForwardOperations /\ s.status \in Statuses
    BY DEF Row
  <1> HIDE DEF DoneOf, UndoneOf
  <1>6. step \in DoneOf(s) /\ s.status \notin {"COMPENSATING", "FAILED"} =>
          far \in {"done", "final"}
    <2>1. s.status \in {"IN_PROGRESS", "COMPLETED"} => UndoFor[ServiceOf[step]] \notin sent
      BY <1>1, <1>5, UpToTable DEF RowTrue
    <2> QED
      BY <1>2, <1>4, <1>5, <2>1 DEF ServiceTrue, Statuses, Active, Terminal
  <1>7. s.status = "COMPENSATING" /\ step \in DoneOf(s)
          /\ ReverseOperation[step] \in YetToCome(s) => far = "done"
    <2>1. s.status = "COMPENSATING" => "FINALIZE_INVENTORY" \notin sent
      <3>1. s.status = "COMPENSATING" => s.currentOperation \in {"RESERVE_INVENTORY", "CREATE_SHIPMENT"}
        BY DEF RowShape
      <3> QED
        BY <3>1 DEF RowTrue, UpTo, ForwardOperations
    <2> QED
      BY <1>1, <1>2, <2>1 DEF ServiceTrue
  <1>8. ASSUME step \notin DoneOf(s)
        PROVE  \/ far \in {"none", "void"}
               \/ s.status = "IN_PROGRESS" /\ s.currentOperation = StepOperation[step]
    <2>1. far \in {"none", "void"} \/ DoFor[ServiceOf[step]] \in sent
      BY DEF ServiceTrue, Effects
    <2>2. s.status # "COMPLETED"
      BY <1>8 DEF RowShape
    <2>3. CASE s.status \in {"ABSENT", "PENDING_PAYMENT"}
      BY <2>1, <2>3 DEF RowTrue
    <2>4. CASE s.status \in {"IN_PROGRESS", "COMPENSATING", "FAILED"}
      <3>1. step \notin StepsBefore[s.currentOperation]
        BY <1>8, <2>4 DEF RowShape, StepsBefore
      <3>2. StepOperation[step] \in UpTo[s.currentOperation] => StepOperation[step] = s.currentOperation
        BY <1>5, <3>1 DEF StepsBefore, UpTo, StepOperation, StepNames, ForwardOperations
      <3>3. StepOperation[step] \in sent => StepOperation[step] = s.currentOperation
        BY <1>1, <2>4, <3>2 DEF RowTrue
      <3> QED
        BY <1>1, <2>1, <2>4, <3>3 DEF RowTrue, ServiceTrue
    <2> QED
      BY <1>5, <2>2, <2>3, <2>4 DEF Statuses, Active, Terminal
  <1> QED
    BY <1>2, <1>3, <1>6, <1>7, <1>8 DEF ServiceTrue

LEMMA YetToBeSent ==
  ASSUME IInv, BudgetKept, NEW o \in Orders, NEW operation \in YetToCome(saga[o])
  PROVE  operation \notin Sent(outbox[o])
  <1>1. outbox[o] \in Seq(Command)
    BY DEF IInv, TypeOK
  <1>2. IsFiniteSet(Places(outbox[o], operation))
    BY <1>1, TimesType
  <1>3. Cardinality(Places(outbox[o], operation)) = 0
    BY DEF BudgetKept, Budget, Times
  <1>4. Places(outbox[o], operation) = {}
    BY <1>2, <1>3, FS_EmptySet
  <1> QED
    BY <1>4 DEF Places, Sent

LEMMA TimelineFollows == IInv /\ SystemInv /\ BudgetKept => TimelineTrue
  <1> SUFFICES ASSUME IInv, SystemInv, BudgetKept, NEW o \in Orders
               PROVE  LET s == saga[o] IN
                      /\ ShownInHand(s) = IF s.status \in Active THEN {NextOperation(s)} ELSE {}
                      /\ Forward(s, "FINALIZE_INVENTORY") = "Succeeded" <=> s.status = "COMPLETED"
                      /\ \A step \in StepNames :
                           LET far == StepEffect(o, step)
                               shown == Forward(s, StepOperation[step])
                               undoing == Compensation(s, step) IN
                           /\ shown = "Succeeded" => far \in {"done", "undone", "final"}
                           /\ shown \in {"Pending", "Failed"} => far \in {"none", "void"}
                           /\ undoing = "Succeeded" => far = "undone"
                           /\ undoing = "Pending" => s.status = "COMPENSATING" /\ far = "done"
                           /\ undoing = "NotNeeded" => far \in {"none", "void"}
                           /\ shown = "Succeeded" /\ undoing = "NotShown" =>
                                far \in {"done", "final"}
    BY DEF TimelineTrue
  <1> DEFINE s == saga[o]
             sent == Sent(outbox[o])
             said == Said(o)
  <1>1. s \in Row /\ Progress(s) /\ RowTrue(s, sent, said)
    BY DEF IInv, TypeOK, OrderInv, SystemInv, OrderTrue
  <1>2. RowShape(s)
    BY <1>1, EveryRowHasShape
  <1>3. \A operation \in YetToCome(s) : operation \notin sent
    BY YetToBeSent
  <1>4. \A service \in Services : ServiceTrue(service, effect[service][o], said[service], sent)
    BY DEF SystemInv, OrderTrue, Said
  <1> HIDE DEF s, sent, said
  <1>5. ShownInHand(s) = IF s.status \in Active THEN {NextOperation(s)} ELSE {}
    BY <1>1, <1>2, InHandShown
  <1>6. Forward(s, "FINALIZE_INVENTORY") = "Succeeded" <=> s.status = "COMPLETED"
    BY <1>1, <1>2, ForwardShown
  <1>7. ASSUME NEW step \in StepNames
        PROVE  LET far == StepEffect(o, step)
                   shown == Forward(s, StepOperation[step])
                   undoing == Compensation(s, step) IN
               /\ shown = "Succeeded" => far \in {"done", "undone", "final"}
               /\ shown \in {"Pending", "Failed"} => far \in {"none", "void"}
               /\ undoing = "Succeeded" => far = "undone"
               /\ undoing = "Pending" => s.status = "COMPENSATING" /\ far = "done"
               /\ undoing = "NotNeeded" => far \in {"none", "void"}
               /\ shown = "Succeeded" /\ undoing = "NotShown" => far \in {"done", "final"}
    <2> DEFINE far == effect[ServiceOf[step]][o]
               shown == Forward(s, StepOperation[step])
               undoing == Compensation(s, step)
    <2>1. StepEffect(o, step) = far
      BY StepVocabulary DEF StepEffect
    <2>2. ServiceTrue(ServiceOf[step], far, said[ServiceOf[step]], sent)
      BY <1>4, StepVocabulary
    <2>3. shown = IF step \in DoneOf(s) THEN "Succeeded"
                  ELSE IF s.currentOperation # StepOperation[step] THEN "Pending"
                  ELSE IF s.status \in {"COMPENSATING", "FAILED"} THEN "Failed"
                  ELSE IF s.status = "IN_PROGRESS" THEN Executing(s)
                  ELSE "Pending"
      BY <1>1, <1>2, ForwardShown
    <2>4. Executing(s) \notin {"Succeeded", "Pending", "Failed"}
      BY DEF Executing
    <2>5. UndoneOf(s) \subseteq DoneOf(s)
      <3>1. s.status \in Statuses
        BY <1>1 DEF Row
      <3> QED
        BY <1>2, <3>1 DEF RowShape, Statuses, Active, Terminal
    <2> HIDE DEF far, shown, undoing, DoneOf, UndoneOf
    <2>6. /\ step \in DoneOf(s) => far \in {"done", "undone", "final"}
          /\ step \in UndoneOf(s) => far \in {"void", "undone"}
          /\ step \in DoneOf(s) /\ s.status \notin {"COMPENSATING", "FAILED"} =>
               far \in {"done", "final"}
          /\ s.status = "COMPENSATING" /\ step \in DoneOf(s)
               /\ ReverseOperation[step] \in YetToCome(s) => far = "done"
          /\ step \notin DoneOf(s) =>
               \/ far \in {"none", "void"}
               \/ s.status = "IN_PROGRESS" /\ s.currentOperation = StepOperation[step]
      BY <1>1, <1>2, <1>3, <2>2, FarFromRow
    <2>7. /\ undoing = "NotShown" =>
               s.status \notin {"COMPENSATING", "FAILED"} \/ DoneOf(s) = {}
          /\ undoing = "Succeeded" => step \in UndoneOf(s)
          /\ undoing = "NotNeeded" =>
               step \notin DoneOf(s) /\ s.status \in {"COMPENSATING", "FAILED"}
          /\ undoing = "Pending" =>
               /\ s.status = "COMPENSATING" /\ step \in DoneOf(s)
               /\ ReverseOperation[step] \in YetToCome(s)
      BY <1>1, <1>2, CompensationShown DEF undoing
    <2>8. /\ shown = "Succeeded" => far \in {"done", "undone", "final"}
          /\ shown \in {"Pending", "Failed"} => far \in {"none", "void"}
      BY <2>3, <2>4, <2>6
    <2>9. /\ undoing = "Succeeded" => far = "undone"
          /\ undoing = "Pending" => s.status = "COMPENSATING" /\ far = "done"
          /\ undoing = "NotNeeded" => far \in {"none", "void"}
      BY <2>5, <2>6, <2>7
    <2>10. shown = "Succeeded" /\ undoing = "NotShown" => far \in {"done", "final"}
      BY <2>3, <2>4, <2>6, <2>7
    <2> QED
      BY <2>1, <2>8, <2>9, <2>10 DEF shown, undoing
  <1> QED
    BY <1>5, <1>6, <1>7 DEF s

-----------------------------------------------------------------------------
(* The theorems.                                                           *)

(* Joined with its participants the orchestrator is still the orchestrator: *)
(* they only ever narrow down what it may be answered.                      *)
THEOREM SystemIsOrchestrated == SystemSpec => Spec
  <1>1. SystemInit => Init
    BY DEF SystemInit
  <1> QED
    BY <1>1, SystemNextIsNext, PTL DEF SystemSpec, Spec

(* The rows, the commands sent and the results told belong together.        *)
THEOREM SystemInvariance == SystemSpec => [](IInv /\ SystemInv)
  <1>1. SystemInit => IInv /\ SystemInv
    BY InitIInv, InitIsTrue DEF SystemInit
  <1>2. IInv /\ SystemInv /\ [SystemNext]_systemVars => (IInv /\ SystemInv)'
    BY NextIInv, SystemNextIsNext, SystemNextIsTrue
  <1> QED
    BY <1>1, <1>2, PTL DEF SystemSpec

(* A COMPLETED order is paid, shipped and its stock taken; a FAILED one     *)
(* holds nothing at any participant, whatever is still executed of it.      *)
THEOREM EndingsAreTrue == SystemSpec => []EndingsTrue
  <1> QED
    BY EndingsFollow, SystemInvariance, PTL

(* The whole system goes through the abstract saga's steps.                 *)
THEOREM SystemImplementsSaga == SystemSpec => ImplementsSaga
  <1> QED
    BY SystemIsOrchestrated, OrchestratorImplementsSaga

(* What the page makes of a row is what the participants have done.         *)
THEOREM TimelineIsTrue == SystemSpec => []TimelineTrue
  <1>1. SystemSpec => []BudgetKept
    <2>1. SystemSpec => Spec /\ [](IInv /\ SystemInv)
      BY SystemIsOrchestrated, SystemInvariance
    <2> QED
      BY <2>1, InitBudget, NextBudget, PTL DEF Spec
  <1> QED
    BY <1>1, TimelineFollows, SystemInvariance, PTL

=============================================================================
