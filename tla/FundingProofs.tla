---------------------------- MODULE FundingProofs ---------------------------
(***************************************************************************)
(* Theorems about Funding, for every set of pockets and handlers, every    *)
(* window, limit and clock bound.                                          *)
(***************************************************************************)
EXTENDS Funding, TLAPS

-----------------------------------------------------------------------------
(* Types. *)

\* A worker that is released is well typed and holds no pocket.
LEMMA ReleaseTyped ==
    ASSUME TypeOK, NEW w \in Workers, Release(w)
    PROVE  /\ worker' \in [Workers -> WorkerStates]
           /\ \A v \in Workers : worker'[v].pc \in {"ask", "credit", "record", "mark"} =>
                 v # w /\ worker'[v] = worker[v]
<1> DEFINE me == IF w = Sweeper
                  THEN [worker[w] EXCEPT !.pc = "next", !.pocket = -1] ELSE Idle
<1>1. worker' = [worker EXCEPT ![w] = me]
  BY DEF Release
<1>2. worker \in [Workers -> WorkerStates] /\ worker[w] \in WorkerStates
  BY DEF TypeOK
<1>3. Idle \in WorkerStates /\ Idle.pc = "idle"
  BY DEF Idle, At, WorkerStates, PCs, Sources
<1>4. /\ [worker[w] EXCEPT !.pc = "next", !.pocket = -1] \in WorkerStates
      /\ [worker[w] EXCEPT !.pc = "next", !.pocket = -1].pc = "next"
  BY <1>2 DEF WorkerStates, PCs
<1>5. me \in WorkerStates /\ me.pc \in {"idle", "next"}
  BY <1>3, <1>4
<1> HIDE DEF me
<1>6. \A v \in Workers : worker'[v] = IF v = w THEN me ELSE worker[v]
  BY <1>1, <1>2
<1> QED
  BY <1>1, <1>2, <1>5, <1>6

\* A worker sent on keeps its pocket, source and list.
LEMMA GoToTyped ==
    ASSUME TypeOK, NEW w \in Workers, NEW pc \in PCs, GoTo(w, pc)
    PROVE  /\ worker' \in [Workers -> WorkerStates]
           /\ \A v \in Workers : worker'[v].pocket = worker[v].pocket
           /\ \A v \in Workers : worker'[v].via = worker[v].via
           /\ \A v \in Workers : v # w => worker'[v] = worker[v]
           /\ worker'[w].pc = pc
  BY DEF TypeOK, GoTo, WorkerStates

\* Every column, worker and the clock stays in its domain.
LEMMA TypeStep == TypeOK /\ [Next]_vars => TypeOK'
<1> SUFFICES ASSUME TypeOK, [Next]_vars PROVE TypeOK'
  OBVIOUS
<1> USE DEF TypeOK, provider, record
<1>1. ASSUME NEW p \in Pockets, PocketStep(p) PROVE TypeOK'
  <2>1. CASE Accept(p)
    BY <2>1, FundingAssumption DEF Accept, States
  <2>2. CASE MintLink(p) \/ LoseLink(p)
    BY <2>2 DEF MintLink, LoseLink
  <2>3. CASE Cancel(p)
    BY <2>3 DEF Cancel, States
  <2>4. CASE Pay(p)
    BY <2>4 DEF Pay, Payments
  <2>5. CASE Notify(p)
    BY <2>5 DEF Notify
  <2> QED
    BY <1>1, <2>1, <2>2, <2>3, <2>4, <2>5 DEF PocketStep
<1>2. ASSUME NEW p \in Pockets, NEW h \in Handlers, Deliver(h, p) \/ BeginVerify(h, p)
      PROVE  TypeOK'
  <2>1. h \in Workers
    BY DEF Workers
  <2>2. \E me \in WorkerStates :
           /\ me.pocket = p
           /\ worker' = [worker EXCEPT ![h] = me]
    BY <1>2 DEF Deliver, BeginVerify, At, WorkerStates, PCs, Sources
  <2> QED
    BY <1>2, <2>1, <2>2 DEF Deliver, BeginVerify
<1>3. ASSUME NEW w \in Workers, Ask(w) PROVE TypeOK'
  <2>1. CASE GoTo(w, "credit")
    BY <1>3, <2>1, GoToTyped DEF Ask, PCs
  <2>2. CASE Release(w)
    BY <1>3, <2>2, ReleaseTyped DEF Ask
  <2> QED
    BY <1>3, <2>1, <2>2 DEF Ask
<1>4. ASSUME NEW w \in Workers, Credit(w) PROVE TypeOK'
  <2>1. CASE GoTo(w, "record")
    BY <1>4, <2>1, GoToTyped DEF Credit, PCs, States
  <2>2. CASE Release(w)
    BY <1>4, <2>2, ReleaseTyped DEF Credit, States
  <2> QED
    BY <1>4, <2>1, <2>2 DEF Credit
<1>5. ASSUME NEW w \in Workers, Record(w) PROVE TypeOK'
  <2>1. txn' \in [Pockets -> Sources \cup {"none"}]
    BY <1>5 DEF Record, WorkerStates
  <2>2. CASE GoTo(w, "mark")
    BY <1>5, <2>1, <2>2, GoToTyped DEF Record, PCs
  <2>3. CASE Release(w)
    BY <1>5, <2>1, <2>3, ReleaseTyped DEF Record
  <2> QED
    BY <1>5, <2>2, <2>3 DEF Record
<1>6. ASSUME NEW w \in Workers, Mark(w) PROVE TypeOK'
  BY <1>6, ReleaseTyped DEF Mark
<1>7. ASSUME NEW w \in Workers, Fails(w) PROVE TypeOK'
  BY <1>7, ReleaseTyped DEF Fails
<1>8. CASE SweepStep
  <2>1. Sweeper \in Workers
    BY DEF Workers
  <2>2. CASE ListAwaiting
    BY <2>1, <2>2 DEF ListAwaiting, WorkerStates, Idle, At, PCs, Sources, Oldest, Awaiting
  <2>3. CASE VerifyNext
    <3>1. PICK p \in worker[Sweeper].queue :
             worker' = [worker EXCEPT ![Sweeper] =
                 IF state[p] = "CREATED"
                 THEN [@ EXCEPT !.pc = "ask", !.pocket = p, !.queue = worker[Sweeper].queue \ {p}]
                 ELSE [@ EXCEPT !.queue = worker[Sweeper].queue \ {p}]]
      BY <2>3 DEF VerifyNext
    <3>2. worker[Sweeper] \in WorkerStates /\ worker[Sweeper].pc = "next"
      BY <2>1, <2>3 DEF VerifyNext
    <3>3. p \in Pockets
      BY <3>2 DEF WorkerStates
    <3>4. worker'[Sweeper] \in WorkerStates
      BY <2>1, <3>1, <3>2, <3>3 DEF WorkerStates, PCs
    <3>5. worker'[Sweeper].pc \in {"ask", "credit", "record", "mark"} => worker'[Sweeper].pocket = p
      BY <2>1, <3>1, <3>2, <3>3 DEF WorkerStates
    <3> QED
      BY <2>1, <2>3, <3>1, <3>3, <3>4, <3>5 DEF VerifyNext
  <2>4. CASE ListFails \/ EndVerification
    BY <2>1, <2>4, GoToTyped DEF ListFails, EndVerification, PCs
  <2>5. CASE EndTick
    BY <2>1, <2>5 DEF EndTick, WorkerStates, Idle, At, PCs, Sources
  <2>6. ASSUME NEW p \in Pockets, Expire(p) PROVE TypeOK'
    BY <2>6 DEF Expire, States
  <2> QED
    BY <1>8, <2>2, <2>3, <2>4, <2>5, <2>6 DEF SweepStep
<1>9. CASE Crash
  BY <1>9 DEF Crash, WorkerStates, Idle, At, PCs, Sources
<1>10. CASE Tick
  BY <1>10 DEF Tick
<1>11. CASE Stabilise \/ UNCHANGED vars
  <2>1. stable' \in BOOLEAN BY <1>11 DEF Stabilise, vars
  <2> QED BY <1>11, <2>1 DEF Stabilise, vars
<1> QED
  BY <1>1, <1>2, <1>3, <1>4, <1>5, <1>6, <1>7, <1>8, <1>9, <1>10, <1>11 DEF Next, CreditStep

\* Every column, worker and the clock stays in its domain.
THEOREM TypeCorrect == Spec => []TypeOK
<1>1. Init => TypeOK
  BY DEF Init, TypeOK, States, Payments, Sources, WorkerStates, Idle, At, PCs
<1> QED
  BY <1>1, TypeStep, PTL DEF Spec

-----------------------------------------------------------------------------
(* The credit path. *)

Inductive == TypeOK /\ CreditPath

\* A step that leaves the rows' columns alone keeps them grounded.
LEMMA RowsUntouched ==
    ASSUME \A p \in Pockets : RowGrounded(p),
           UNCHANGED <<state, paid, link, notified, processed, txn>>
    PROVE  (\A p \in Pockets : RowGrounded(p))'
  BY DEF RowGrounded

\* What a worker rests on is not taken away by a step that keeps its place.
LEMMA LicenceKept ==
    ASSUME TypeOK, NEW w \in Workers, WorkerLicensed(w), worker'[w] = worker[w],
           \A p \in Pockets : /\ state[p] = "FUNDED" => state'[p] = "FUNDED"
                              /\ paid[p] # "none" => paid'[p] = paid[p]
                              /\ txn[p] # "none" => txn'[p] # "none"
    PROVE  WorkerLicensed(w)'
  BY DEF TypeOK, WorkerLicensed, Underpaid, Completes, InFull

\* A worker at any other place needs no licence.
LEMMA NoLicence ==
    ASSUME NEW w, worker'[w].pc \notin {"credit", "record", "mark"}
    PROVE  WorkerLicensed(w)'
  BY DEF WorkerLicensed

\* Nothing a pocket, its buyer, a worker, the sweeper or a crash does takes
\* away what the credit path rests on.
LEMMA CreditStepSafe == Inductive /\ [Next]_vars => CreditPath'
<1> SUFFICES ASSUME TypeOK, CreditPath, [Next]_vars PROVE CreditPath'
  BY DEF Inductive
<1>t. TypeOK'
  BY TypeStep
<1>r. \A p \in Pockets : RowGrounded(p)
  BY DEF CreditPath
<1>w. \A w \in Workers : WorkerLicensed(w)
  BY DEF CreditPath
<1>1. ASSUME NEW p \in Pockets, PocketStep(p) PROVE CreditPath'
  <2>1. \A q \in Pockets : RowGrounded(q)'
    <3>1. CASE Accept(p)
      BY <1>r, <3>1 DEF Accept, provider, RowGrounded, TypeOK
    <3>2. CASE MintLink(p) \/ LoseLink(p)
      BY <1>r, <3>2 DEF MintLink, LoseLink, provider, RowGrounded, TypeOK
    <3>3. CASE Cancel(p)
      BY <1>r, <3>3 DEF Cancel, provider, RowGrounded, TypeOK
    <3>4. CASE Pay(p)
      BY <1>r, <3>4 DEF Pay, record, RowGrounded, TypeOK, Completes, InFull
    <3>5. CASE Notify(p)
      BY <1>r, <3>5 DEF Notify, record, RowGrounded, TypeOK
    <3> QED
      BY <1>1, <3>1, <3>2, <3>3, <3>4, <3>5 DEF PocketStep
  <2>2. /\ UNCHANGED worker
        /\ \A q \in Pockets : /\ state[q] = "FUNDED" => state'[q] = "FUNDED"
                              /\ paid[q] # "none" => paid'[q] = paid[q]
                              /\ txn[q] # "none" => txn'[q] # "none"
    BY <1>1 DEF PocketStep, Accept, MintLink, LoseLink, Cancel, Pay, Notify,
                provider, record, TypeOK
  <2> QED
    BY <1>w, <2>1, <2>2, LicenceKept DEF CreditPath
<1>2. ASSUME NEW p \in Pockets, NEW h \in Handlers, Deliver(h, p) \/ BeginVerify(h, p)
      PROVE  CreditPath'
  <2>1. h \in Workers
    BY DEF Workers
  <2>2. UNCHANGED <<state, paid, link, notified, processed, txn>>
    BY <1>2 DEF Deliver, BeginVerify, provider, record
  <2>3. WorkerLicensed(h)'
    <3>1. CASE Deliver(h, p)
      <4>1. worker'[h] = At("credit", p, "notice")
        BY <2>1, <3>1 DEF Deliver, TypeOK
      <4>2. paid[p] # "none" /\ paid[p] \in Payments
        BY <1>r, <3>1 DEF Deliver, RowGrounded, TypeOK
      <4> QED
        BY <2>2, <4>1, <4>2 DEF WorkerLicensed, Underpaid, Completes, InFull, Payments, At
    <3>2. CASE BeginVerify(h, p)
      BY <2>1, <3>2, NoLicence DEF BeginVerify, At, TypeOK
    <3> QED
      BY <1>2, <3>1, <3>2
  <2>4. \A v \in Workers : v # h => worker'[v] = worker[v]
    BY <1>2 DEF Deliver, BeginVerify, TypeOK
  <2>5. \A v \in Workers : v # h => WorkerLicensed(v)'
    BY <1>w, <2>2, <2>4, LicenceKept
  <2> QED
    BY <1>r, <2>2, <2>3, <2>5, RowsUntouched DEF CreditPath
<1>3. ASSUME NEW w \in Workers, Ask(w) PROVE CreditPath'
  <2>1. UNCHANGED <<state, paid, link, notified, processed, txn>>
    BY <1>3 DEF Ask, provider, record
  <2>2. \A v \in Workers : v # w => worker'[v] = worker[v]
    BY <1>3 DEF Ask, GoTo, Release, TypeOK
  <2>3. WorkerLicensed(w)'
    <3>1. CASE paid[worker[w].pocket] \in Completes /\ GoTo(w, "credit")
      <4>1. worker'[w].pc = "credit" /\ worker'[w].pocket = worker[w].pocket
        BY <3>1, GoToTyped DEF PCs
      <4> QED
        BY <2>1, <3>1, <4>1 DEF WorkerLicensed, Completes
    <3>2. CASE Release(w)
      BY <3>2, ReleaseTyped, NoLicence
    <3> QED
      BY <1>3, <3>1, <3>2 DEF Ask
  <2> QED
    BY <1>r, <1>w, <2>1, <2>2, <2>3, RowsUntouched, LicenceKept DEF CreditPath
<1>4. ASSUME NEW w \in Workers, Credit(w) PROVE CreditPath'
  <2> DEFINE p == worker[w].pocket
  <2>1. /\ p \in Pockets
        /\ paid[p] \in Completes \/ Underpaid(w)
        /\ UNCHANGED <<paid, link, notified, processed, txn>>
        /\ \A v \in Workers : v # w => worker'[v] = worker[v]
    BY <1>4, <1>w DEF Credit, WorkerLicensed, GoTo, Release, TypeOK, provider
  <2>2. CASE UNCHANGED state /\ Release(w)
    <3>1. \A v \in Workers : WorkerLicensed(v)'
      BY <1>w, <2>1, <2>2, ReleaseTyped, NoLicence, LicenceKept
    <3> QED
      BY <1>r, <2>1, <2>2, <3>1, RowsUntouched DEF CreditPath
  <2>3. CASE /\ ~Underpaid(w)
             /\ state' = [state EXCEPT ![p] = "FUNDED"]
             /\ GoTo(w, "record")
    <3>1. \A q \in Pockets : RowGrounded(q)'
      BY <1>r, <2>1, <2>3 DEF RowGrounded, TypeOK
    <3>2. WorkerLicensed(w)'
      <4>1. worker'[w].pc = "record" /\ worker'[w].pocket = p
        BY <2>3, GoToTyped DEF PCs
      <4>2. state'[p] = "FUNDED"
        BY <2>1, <2>3 DEF TypeOK
      <4> QED
        BY <4>1, <4>2 DEF WorkerLicensed
    <3>3. \A q \in Pockets : state[q] = "FUNDED" => state'[q] = "FUNDED"
      BY <2>1, <2>3 DEF TypeOK
    <3>4. \A v \in Workers : v # w => WorkerLicensed(v)'
      BY <1>w, <2>1, <3>3, LicenceKept
    <3> QED
      BY <3>1, <3>2, <3>4 DEF CreditPath
  <2> QED
    BY <1>4, <2>2, <2>3 DEF Credit
<1>5. ASSUME NEW w \in Workers, Record(w) PROVE CreditPath'
  <2> DEFINE p == worker[w].pocket
  <2>1. /\ p \in Pockets /\ worker[w].via \in Sources
        /\ state[p] = "FUNDED"
        /\ txn' = [txn EXCEPT ![p] = IF @ = "none" THEN worker[w].via ELSE @]
        /\ UNCHANGED <<state, paid, link, notified, processed>>
        /\ \A v \in Workers : v # w => worker'[v] = worker[v]
    BY <1>5, <1>w DEF Record, WorkerLicensed, GoTo, Release, TypeOK, WorkerStates, provider
  <2>2. txn'[p] # "none" /\ \A q \in Pockets : q # p => txn'[q] = txn[q]
    BY <2>1 DEF TypeOK, Sources
  <2>3. \A q \in Pockets : RowGrounded(q)'
    BY <1>r, <2>1, <2>2 DEF RowGrounded
  <2>4. WorkerLicensed(w)'
    <3>1. CASE GoTo(w, "mark")
      <4>1. worker'[w].pc = "mark" /\ worker'[w].pocket = p
        BY <3>1, GoToTyped DEF PCs
      <4> QED
        BY <2>2, <4>1 DEF WorkerLicensed
    <3>2. CASE Release(w)
      BY <3>2, ReleaseTyped, NoLicence
    <3> QED
      BY <1>5, <3>1, <3>2 DEF Record
  <2>5. \A v \in Workers : v # w => WorkerLicensed(v)'
    BY <1>w, <2>1, <2>2, LicenceKept
  <2> QED
    BY <2>3, <2>4, <2>5 DEF CreditPath
<1>6. ASSUME NEW w \in Workers, Mark(w) PROVE CreditPath'
  <2>1. /\ worker[w].pocket \in Pockets
        /\ txn[worker[w].pocket] # "none"
        /\ processed' = [processed EXCEPT ![worker[w].pocket] = TRUE]
        /\ UNCHANGED <<state, paid, link, notified, txn>>
        /\ Release(w)
    BY <1>6, <1>w DEF Mark, WorkerLicensed, TypeOK, provider
  <2>2. \A q \in Pockets : RowGrounded(q)'
    BY <1>r, <2>1 DEF RowGrounded, TypeOK
  <2>3. \A v \in Workers : v # w => worker'[v] = worker[v]
    BY <2>1 DEF Release, TypeOK
  <2>4. \A v \in Workers : WorkerLicensed(v)'
    BY <1>w, <2>1, <2>3, ReleaseTyped, NoLicence, LicenceKept
  <2> QED
    BY <2>2, <2>4 DEF CreditPath
<1>7. ASSUME NEW w \in Workers, Fails(w) PROVE CreditPath'
  <2>1. Release(w) /\ UNCHANGED <<state, paid, link, notified, processed, txn>>
    BY <1>7 DEF Fails, provider, record
  <2>2. \A v \in Workers : v # w => worker'[v] = worker[v]
    BY <2>1 DEF Release, TypeOK
  <2>3. \A v \in Workers : WorkerLicensed(v)'
    BY <1>w, <2>1, <2>2, ReleaseTyped, NoLicence, LicenceKept
  <2> QED
    BY <1>r, <2>1, <2>3, RowsUntouched DEF CreditPath
<1>8. CASE SweepStep
  <2>s. Sweeper \in Workers
    BY DEF Workers
  <2>1. CASE ListAwaiting \/ ListFails \/ VerifyNext \/ EndVerification \/ EndTick
    <3>1. UNCHANGED <<state, paid, link, notified, processed, txn>>
      BY <2>1 DEF ListAwaiting, ListFails, VerifyNext, EndVerification, EndTick, provider, record
    <3>2. \A v \in Workers : v # Sweeper => worker'[v] = worker[v]
      BY <2>1 DEF ListAwaiting, ListFails, VerifyNext, EndVerification, EndTick, GoTo, TypeOK
    <3>3. worker'[Sweeper].pc \notin {"credit", "record", "mark"}
      <4>1. CASE ListAwaiting
        <5>1. worker'[Sweeper] = [Idle EXCEPT !.pc = "next", !.queue = Oldest(Awaiting)]
          BY <2>s, <4>1 DEF ListAwaiting, TypeOK
        <5>2. DOMAIN Idle = {"pc", "pocket", "via", "queue"}
          BY DEF Idle, At
        <5> QED
          BY <5>1, <5>2
      <4>4. CASE EndTick
        BY <2>s, <4>4 DEF EndTick, Idle, At, TypeOK
      <4>2. CASE ListFails \/ EndVerification
        BY <2>s, <4>2 DEF ListFails, EndVerification, GoTo, TypeOK, WorkerStates
      <4>3. CASE VerifyNext
        <5>1. worker[Sweeper] \in WorkerStates /\ worker[Sweeper].pc = "next"
          BY <2>s, <4>3 DEF VerifyNext, TypeOK
        <5> QED
          BY <2>s, <4>3, <5>1 DEF VerifyNext, TypeOK, WorkerStates
      <4> QED
        BY <2>1, <4>1, <4>2, <4>3, <4>4
    <3>4. \A v \in Workers : WorkerLicensed(v)'
      BY <1>w, <3>1, <3>2, <3>3, NoLicence, LicenceKept
    <3> QED
      BY <1>r, <3>1, <3>4, RowsUntouched DEF CreditPath
  <2>2. ASSUME NEW p \in Pockets, Expire(p) PROVE CreditPath'
    <3>1. /\ state[p] = "CREATED" /\ state' = [state EXCEPT ![p] = "EXPIRED"]
          /\ UNCHANGED <<worker, paid, link, notified, processed, txn>>
      BY <2>2 DEF Expire, provider
    <3>2. \A q \in Pockets : RowGrounded(q)'
      BY <1>r, <3>1 DEF RowGrounded, TypeOK
    <3>3. \A q \in Pockets : state[q] = "FUNDED" => state'[q] = "FUNDED"
      BY <3>1 DEF TypeOK
    <3>4. \A v \in Workers : WorkerLicensed(v)'
      BY <1>w, <3>1, <3>3, LicenceKept
    <3> QED
      BY <3>2, <3>4 DEF CreditPath
  <2> QED
    BY <1>8, <2>1, <2>2 DEF SweepStep
<1>9. CASE Crash
  <2>1. \A q \in Pockets : RowGrounded(q)'
    BY <1>r, <1>9 DEF Crash, provider, RowGrounded, TypeOK
  <2>2. \A v \in Workers : WorkerLicensed(v)'
    BY <1>9, NoLicence DEF Crash, Idle, At
  <2> QED
    BY <2>1, <2>2 DEF CreditPath
<1>10. CASE Tick \/ Stabilise \/ UNCHANGED vars
  <2>1. UNCHANGED <<worker, state, paid, link, notified, processed, txn>>
    BY <1>10 DEF Tick, Stabilise, provider, record, vars
  <2>2. \A v \in Workers : WorkerLicensed(v)'
    BY <1>w, <2>1, LicenceKept
  <2> QED
    BY <1>r, <2>1, <2>2, RowsUntouched DEF CreditPath
<1> QED
  BY <1>1, <1>2, <1>3, <1>4, <1>5, <1>6, <1>7, <1>8, <1>9, <1>10 DEF Next, CreditStep

\* creditFunding's callers may rest on what they read, whatever races them.
THEOREM CreditPathHolds == Spec => []CreditPath
<1>1. Init => Inductive
  <2>1. Init => TypeOK
    BY DEF Init, TypeOK, States, Payments, Sources, WorkerStates, Idle, At, PCs
  <2>2. Init => CreditPath
    BY DEF Init, CreditPath, RowGrounded, WorkerLicensed, Idle, At
  <2> QED
    BY <2>1, <2>2 DEF Inductive
<1>2. Inductive /\ [Next]_vars => Inductive'
  BY TypeStep, CreditStepSafe DEF Inductive
<1>3. Inductive => CreditPath
  BY DEF Inductive
<1> QED
  BY <1>1, <1>2, <1>3, PTL DEF Spec

\* IngestGatewayEvent: a stamped event's payment is on the pocket.
THEOREM ProcessedWereCredited == Spec => []ProcessedMeansCredited
<1>1. CreditPath => ProcessedMeansCredited
  BY DEF CreditPath, RowGrounded, ProcessedMeansCredited
<1> QED
  BY <1>1, CreditPathHolds, PTL

\* creditFunding never funds a pocket on a short payment, provided that the
\* provider tells it: the one place where that assumption is needed.
THEOREM FundedInFull ==
    ASSUME AmountsTold
    PROVE  Spec => [](\A p \in Pockets : state[p] = "FUNDED" => paid[p] \in InFull)
<1>1. CreditPath => \A p \in Pockets : state[p] = "FUNDED" => paid[p] \in InFull
  BY DEF CreditPath, RowGrounded, Completes
<1> QED
  BY <1>1, CreditPathHolds, PTL

-----------------------------------------------------------------------------
(* Funding implements Collection. *)

\* A step that shows neither in the money nor in the receipts stutters.
LEMMA Stutters ==
    ASSUME UNCHANGED <<state, paid, txn>>
    PROVE  UNCHANGED C!vars
  BY DEF C!vars, MoneyBar

\* A step that moves the money of one pocket and no receipt.
LEMMA MovesOne ==
    ASSUME NEW p \in Pockets, UNCHANGED txn,
           \A q \in Pockets \ {p} : state'[q] = state[q] /\ paid'[q] = paid[q]
    PROVE  MoneyBar' = [MoneyBar EXCEPT ![p] = MoneyBar'[p]]
  BY DEF MoneyBar

\* Each step of funding is a step of Collection or a stutter.
LEMMA CollectionStep == Inductive /\ [Next]_vars => [C!Next]_(C!vars)
<1> SUFFICES ASSUME TypeOK, CreditPath, [Next]_vars PROVE [C!Next]_(C!vars)
  BY DEF Inductive
<1> DEFINE Lands(p, from, to) == MoneyBar[p] = from /\ MoneyBar'[p] = to
<1>r. \A p \in Pockets : RowGrounded(p)
  BY DEF CreditPath
<1>m. ASSUME NEW p \in Pockets, UNCHANGED txn,
             \A q \in Pockets \ {p} : state'[q] = state[q] /\ paid'[q] = paid[q],
             \/ Lands(p, "awaited", "received") \/ Lands(p, "closed", "stranded")
             \/ Lands(p, "awaited", "closed") \/ Lands(p, "received", "stranded")
             \/ Lands(p, "received", "credited")
      PROVE  C!Next
  <2>1. MoneyBar' = [MoneyBar EXCEPT ![p] = MoneyBar'[p]]
    BY <1>m, MovesOne
  <2>2. C!Receive(p) \/ C!Close(p) \/ C!Credit(p)
    BY <1>m, <2>1 DEF C!Receive, C!Close, C!Credit, C!Move
  <2> QED
    BY <2>2 DEF C!Next
<1>1. ASSUME NEW p \in Pockets, PocketStep(p) PROVE [C!Next]_(C!vars)
  <2>1. CASE Accept(p)
    <3>1. paid[p] = "none" /\ UNCHANGED <<paid, txn>>
      BY <1>r, <2>1 DEF Accept, RowGrounded, provider
    <3>2. MoneyBar' = MoneyBar
      BY <2>1, <3>1 DEF Accept, MoneyBar, TypeOK, Completes, InFull
    <3> QED
      BY <3>1, <3>2 DEF C!vars
  <2>2. CASE MintLink(p) \/ LoseLink(p) \/ Notify(p)
    BY <2>2, Stutters DEF MintLink, LoseLink, Notify, provider, record
  <2>3. CASE Cancel(p)
    <3>1. \/ Lands(p, "awaited", "closed") \/ Lands(p, "received", "stranded")
      BY <2>3 DEF Cancel, provider, MoneyBar, TypeOK
    <3>2. UNCHANGED txn /\ \A q \in Pockets \ {p} : state'[q] = state[q] /\ paid'[q] = paid[q]
      BY <2>3 DEF Cancel, provider, TypeOK
    <3> QED
      BY <1>m, <3>1, <3>2
  <2>4. CASE Pay(p)
    <3>1. /\ paid[p] = "none" /\ UNCHANGED <<state, txn>>
          /\ \E a \in Payments \ {"none"} : paid' = [paid EXCEPT ![p] = a]
      BY <2>4 DEF Pay, record, Payments
    <3>2. state[p] \in {"CREATED", "EXPIRED", "CANCELLED"}
      BY <1>r, <2>4, <3>1 DEF Pay, RowGrounded, Completes, InFull, TypeOK, States
    <3>3. \A q \in Pockets \ {p} : state'[q] = state[q] /\ paid'[q] = paid[q]
      BY <3>1 DEF TypeOK
    <3>4. CASE paid'[p] \in Completes
      <4>1. \/ Lands(p, "awaited", "received") \/ Lands(p, "closed", "stranded")
        BY <3>1, <3>2, <3>4 DEF MoneyBar, Completes, InFull
      <4> QED
        BY <1>m, <3>1, <3>3, <4>1
    <3>5. CASE paid'[p] \notin Completes
      <4>1. MoneyBar' = MoneyBar
        BY <3>1, <3>3, <3>5 DEF MoneyBar, Completes, InFull
      <4> QED
        BY <3>1, <4>1 DEF C!vars
    <3> QED
      BY <3>4, <3>5
  <2> QED
    BY <1>1, <2>1, <2>2, <2>3, <2>4 DEF PocketStep
<1>2. ASSUME NEW p \in Pockets, NEW h \in Handlers, Deliver(h, p) \/ BeginVerify(h, p)
      PROVE  UNCHANGED C!vars
  BY <1>2, Stutters DEF Deliver, BeginVerify, provider, record
<1>3. ASSUME NEW w \in Workers, Ask(w) \/ Mark(w) \/ Fails(w) PROVE UNCHANGED C!vars
  BY <1>3, Stutters DEF Ask, Mark, Fails, provider, record
<1>4. ASSUME NEW w \in Workers, Credit(w) PROVE [C!Next]_(C!vars)
  <2> DEFINE p == worker[w].pocket
  <2>1. /\ p \in Pockets
        /\ paid[p] \in Completes \/ Underpaid(w)
        /\ UNCHANGED <<paid, txn>>
    BY <1>4 DEF Credit, CreditPath, WorkerLicensed, TypeOK, provider
  <2>2. CASE UNCHANGED state
    BY <2>1, <2>2, Stutters
  <2>3. CASE /\ ~Underpaid(w) /\ state[p] \in {"CREATED", "FUNDED"}
             /\ state' = [state EXCEPT ![p] = "FUNDED"]
    <3>1. \A q \in Pockets \ {p} : state'[q] = state[q] /\ paid'[q] = paid[q]
      BY <2>1, <2>3 DEF TypeOK
    <3>2. CASE state[p] = "FUNDED"
      BY <2>1, <2>3, <3>2, Stutters DEF TypeOK
    <3>3. CASE state[p] = "CREATED"
      <4>1. Lands(p, "received", "credited")
        BY <2>1, <2>3, <3>3 DEF MoneyBar, TypeOK
      <4> QED
        BY <1>m, <2>1, <3>1, <4>1
    <3> QED
      BY <2>3, <3>2, <3>3
  <2> QED
    BY <1>4, <2>2, <2>3 DEF Credit
<1>5. ASSUME NEW w \in Workers, Record(w) PROVE [C!Next]_(C!vars)
  <2> DEFINE p == worker[w].pocket
  <2>1. /\ p \in Pockets /\ worker[w].via \in Sources
        /\ state[p] = "FUNDED"
        /\ txn' = [txn EXCEPT ![p] = IF @ = "none" THEN worker[w].via ELSE @]
        /\ UNCHANGED <<state, paid>>
    BY <1>5 DEF Record, CreditPath, WorkerLicensed, TypeOK, WorkerStates, provider
  <2>2. MoneyBar[p] = "credited" /\ UNCHANGED MoneyBar
    BY <2>1 DEF MoneyBar
  <2>3. CASE txn[p] = "none"
    BY <2>1, <2>2, <2>3 DEF C!Next, C!Record
  <2>4. CASE txn[p] # "none"
    BY <2>1, <2>4, Stutters DEF TypeOK
  <2> QED
    BY <2>3, <2>4
<1>6. CASE SweepStep
  <2>1. CASE ListAwaiting \/ ListFails \/ VerifyNext \/ EndVerification \/ EndTick
    BY <2>1, Stutters
       DEF ListAwaiting, ListFails, VerifyNext, EndVerification, EndTick, provider, record
  <2>2. ASSUME NEW p \in Pockets, Expire(p) PROVE [C!Next]_(C!vars)
    <3>1. \/ Lands(p, "awaited", "closed") \/ Lands(p, "received", "stranded")
      BY <2>2 DEF Expire, provider, MoneyBar, TypeOK
    <3>2. UNCHANGED txn /\ \A q \in Pockets \ {p} : state'[q] = state[q] /\ paid'[q] = paid[q]
      BY <2>2 DEF Expire, provider, TypeOK
    <3> QED
      BY <1>m, <3>1, <3>2
  <2> QED
    BY <1>6, <2>1, <2>2 DEF SweepStep
<1>7. CASE Crash \/ Tick \/ Stabilise \/ UNCHANGED vars
  BY <1>7, Stutters DEF Crash, Tick, Stabilise, provider, record, vars
<1> QED
  BY <1>1, <1>2, <1>3, <1>4, <1>5, <1>6, <1>7 DEF Next, CreditStep

\* A payment is credited only if made in full, for good, under one receipt,
\* and one that misses its pocket is stranded: the credit path implements
\* Collection.
THEOREM ImplementsCollection == Spec => CollectionSpec
<1>1. Init => Inductive
  <2>1. Init => TypeOK
    BY DEF Init, TypeOK, States, Payments, Sources, WorkerStates, Idle, At, PCs
  <2>2. Init => CreditPath
    BY DEF Init, CreditPath, RowGrounded, WorkerLicensed, Idle, At
  <2> QED
    BY <2>1, <2>2 DEF Inductive
<1>2. Inductive /\ [Next]_vars => Inductive'
  BY TypeStep, CreditStepSafe DEF Inductive
<1>3. Init => C!Init
  BY DEF Init, C!Init, MoneyBar, Completes, InFull
<1>4. Inductive /\ [Next]_vars => [C!Next]_(C!vars)
  BY CollectionStep
<1> QED
  BY <1>1, <1>2, <1>3, <1>4, PTL DEF Spec, CollectionSpec, C!Spec

-----------------------------------------------------------------------------
(* What a collection promises, whatever implements it.                      *)

\* Only a credited pocket carries a receipt.
SoundCredit ==
    /\ C!TypeOK
    /\ \A p \in Pockets : txn[p] # "none" => MoneyBar[p] = "credited"

\* A credit is not undone nor given a second receipt, and a payment that was
\* made is credited or stranded, and forgotten in neither case.
CreditMoves ==
    \A p \in Pockets :
        /\ MoneyBar[p] \in {"credited", "stranded"} => MoneyBar'[p] = MoneyBar[p]
        /\ MoneyBar[p] = "received" => MoneyBar'[p] \in {"received", "credited", "stranded"}
        /\ MoneyBar'[p] = "credited" => MoneyBar[p] \in {"received", "credited"}
        /\ txn[p] # "none" => txn'[p] = txn[p]

CreditIsKept == [][CreditMoves]_(C!vars)

\* A collection promises that much.
LEMMA CollectionPromise == CollectionSpec => []SoundCredit /\ CreditIsKept
<1> HIDE DEF MoneyBar
<1> USE DEF SoundCredit, C!TypeOK
<1>1. C!Init => SoundCredit
  BY DEF C!Init
<1>2. SoundCredit /\ [C!Next]_(C!vars) => SoundCredit' /\ [CreditMoves]_(C!vars)
  <2> SUFFICES ASSUME SoundCredit, [C!Next]_(C!vars)
               PROVE  SoundCredit' /\ [CreditMoves]_(C!vars)
    OBVIOUS
  <2>1. CASE UNCHANGED C!vars
    BY <2>1 DEF C!vars
  <2>2. ASSUME NEW p \in Pockets, NEW from, NEW to, C!Move(p, from, to),
               <<from, to>> \in {<<"awaited", "received">>, <<"closed", "stranded">>,
                                 <<"awaited", "closed">>, <<"received", "stranded">>,
                                 <<"received", "credited">>}
        PROVE  SoundCredit' /\ CreditMoves
    BY <2>2 DEF C!Move, CreditMoves
  <2>3. ASSUME NEW p \in Pockets, C!Record(p)
        PROVE  SoundCredit' /\ CreditMoves
    BY <2>3 DEF C!Record, CreditMoves
  <2> QED
    BY <2>1, <2>2, <2>3 DEF C!Next, C!Receive, C!Close, C!Credit
<1> QED
  BY <1>1, <1>2, PTL DEF CollectionSpec, C!Spec, CreditIsKept

\* So the ledger credits nothing that was not paid in full, never twice, and
\* never takes a credit back; a receipt is proof of a credit.
THEOREM CreditIsSound == Spec => []SoundCredit /\ CreditIsKept
BY ImplementsCollection, CollectionPromise

=============================================================================
