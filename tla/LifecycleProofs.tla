-------------------------- MODULE LifecycleProofs ---------------------------
(***************************************************************************)
(* Theorems of module Lifecycle, for every set of agreed terms, any number *)
(* of handlers, any lockout limit and any grace period: type correctness,  *)
(* conservation of the buyer's money, the finality of closed pockets, the  *)
(* dispute row, and the refinement of module Escrow; then what the audit   *)
(* log proves: that it is gap-free, that a payout had a code or an         *)
(* arbitration, that a refund had a human cause, that the lockout and the  *)
(* sanctions agree with it, that no timer fires early and that no claim of *)
(* the sweeper is refused.                                                 *)
(***************************************************************************)
EXTENDS Lifecycle, TLAPS, SequenceTheorems, FiniteSetTheorems

\* Agreed terms are valid.
LEMMA AgreedTerms == TypeOK => terms \in Terms /\ ValidTerms(terms)
BY LifecycleAssumption DEF TypeOK

\* A clock reading moved on by a duration is still a time.
LEMMA TimesAdd == \A a \in Times, d \in Nat : a + d \in Times
BY DEF Times, NoTime

\* The snapshot a transition returns is well typed.
LEMMA SnapshotTyped ==
    ASSUME NEW t \in Terms, NEW p \in Snapshots, NEW now \in Times, NEW ev,
           NEW to \in States
    PROVE  NextSnapshot(t, p, now, ev, to) \in Snapshots
<1>1. /\ now + t.delivery \in Times /\ now + t.inspection \in Times
      /\ now + GracePeriod \in Times /\ NoTime \in Times
  BY TimesAdd, PocketAssumption DEF Terms, Times
<1>2. /\ RegisterFailure(p.attempts).attempts \in Nat
      /\ RegisterFailure(p.attempts).locked \in BOOLEAN
  BY DEF RegisterFailure, Snapshots
<1> QED BY <1>1, <1>2 DEF NextSnapshot, Snapshots

\* The legs of a transition are well typed.
LEMMA LegsTyped == \A t \in Terms : \A ev : LegsOf(t, ev) \subseteq Legs
BY DEF LegsOf, PayoutLegs, RefundLegs, BuyerTotal, Legs, Roles, Terms

\* The domain's events and actors.
LEMMA EventTyped ==
    ASSUME NEW p, NEW now, NEW ev, NEW to, Allows(p, now, ev, to)
    PROVE  ev \in EventKinds
BY DEF Allows, TransitionTable, LegalMoves, EventKinds

\* Every committed transition is well typed.
LEMMA ApplyTyped ==
    ASSUME TypeOK, NEW ev, NEW now \in Times, NEW actor \in Actors, Apply(ev, now, actor)
    PROVE  /\ pocket' \in Snapshots /\ version' \in Nat /\ events' \in Seq(EventRows)
           /\ legs' \subseteq Legs /\ dispute' \in Disputes /\ todo' \subseteq EffectKinds
           /\ UNCHANGED <<terms, attested, codeStored, strikes, clock, stable>>
<1> PICK to \in States : /\ Allows(pocket, now, ev, to)
                         /\ pocket' = NextSnapshot(terms, pocket, now, ev, to)
                         /\ version' = version + 1
                         /\ Audit(pocket.state, to, ev, actor)
                         /\ legs' = legs \cup LegsOf(terms, ev)
                         /\ RecordDispute(pocket.state, to, ev)
                         /\ todo' = todo \cup EffectsOf(ev)
                         /\ UNCHANGED <<terms, attested, codeStored, strikes, clock, stable>>
    BY DEF Apply
<1>1. pocket' \in Snapshots BY AgreedTerms, SnapshotTyped DEF TypeOK
<1>2. events' \in Seq(EventRows)
  <2>1. [from |-> pocket.state, to |-> to, kind |-> ev, actor |-> actor] \in EventRows
    BY EventTyped DEF TypeOK, EventRows, Snapshots
  <2> QED BY <2>1 DEF Audit, TypeOK
<1>3. legs' \subseteq Legs BY AgreedTerms, LegsTyped DEF TypeOK
<1>4. dispute' \in Disputes BY DEF RecordDispute, DisputeClassOf, TypeOK, Disputes
<1>5. todo' \subseteq EffectKinds BY DEF EffectsOf, TypeOK
<1>6. version' \in Nat BY DEF TypeOK
<1> QED BY <1>1, <1>2, <1>3, <1>4, <1>5, <1>6

\* The log of a draft: empty, or the one row its conversion to brokered left.
LEMMA DraftLog ==
    ASSUME Init
    PROVE  /\ Conversion \in EventRows
           /\ \/ events = <<>> /\ version = 0
              \/ /\ events = <<Conversion>> /\ version = 1 /\ Len(events) = 1
                 /\ terms.structure = "brokered"
           /\ events \in Seq(EventRows) /\ version \in Nat
           /\ \A i \in 1..Len(events) : i = 1 /\ events[i] = Conversion
<1>1. Conversion \in EventRows BY DEF Conversion, EventRows, Actors, Roles
<1>2. CASE events = <<>>
  <2>1. Len(events) = 0 /\ events \in Seq(EventRows) BY <1>2
  <2> QED BY <1>1, <1>2, <2>1 DEF Init
<1>3. CASE events # <<>>
  <2>1. events = <<Conversion>> /\ terms.structure = "brokered" BY <1>3 DEF Init, DraftLogs
  <2>2. Len(events) = 1 /\ events[1] = Conversion BY <2>1
  <2>3. events \in Seq(EventRows) BY <1>1, <2>1
  <2> QED BY <1>1, <2>1, <2>2, <2>3 DEF Init
<1> QED BY <1>2, <1>3

\* Type correctness of the initial state.
LEMMA TypeInit == Init => TypeOK
<1> SUFFICES ASSUME Init PROVE TypeOK
    OBVIOUS
<1>1. pocket \in Snapshots BY DEF Init, Snapshots, Times, NoTime
<1>2. events \in Seq(EventRows) /\ version \in Nat BY DraftLog
<1>3. dispute \in Disputes BY DEF Init, NoDispute, Disputes
<1>4. req \in [Requests -> Handlers]
  BY DEF Init, IdleHandler, Handlers, Actors, Times
<1>5. /\ terms \in TermsSet /\ legs \subseteq Legs
      /\ attested \in BOOLEAN /\ codeStored \in BOOLEAN
      /\ strikes \in [{"buyer", "vendor"} -> Nat] /\ todo \subseteq EffectKinds
      /\ swept \in Times /\ clock \in Nat /\ stable \in BOOLEAN
  BY DEF Init, Times
<1> QED BY <1>1, <1>2, <1>3, <1>4, <1>5 DEF TypeOK

\* Type correctness of every step.
LEMMA TypeStep == TypeOK /\ [Next]_vars => TypeOK'
<1> SUFFICES ASSUME TypeOK, [Next]_vars PROVE TypeOK'
    OBVIOUS
<1> USE DEF TypeOK
<1>0. /\ {"system", "vendor", "buyer", "admin", "acceptor"} \subseteq Actors
      /\ Roles \subseteq Actors /\ clock \in Times /\ IdleHandler \in Handlers
      /\ NoTime \in Times
  BY DEF Actors, Roles, Times, IdleHandler, Handlers
<1> DEFINE DbTyped == /\ pocket' \in Snapshots /\ version' \in Nat /\ events' \in Seq(EventRows)
                      /\ legs' \subseteq Legs /\ dispute' \in Disputes
                      /\ todo' \subseteq EffectKinds
                      /\ UNCHANGED <<terms, attested, codeStored, strikes, clock, stable>>
<1>a. \A ev, actor : \A now \in Times : actor \in Actors /\ Apply(ev, now, actor) => DbTyped
  BY ApplyTyped
<1>b. Rollback => DbTyped BY DEF Rollback, dbVars
<1>c. DbTyped /\ req' \in [Requests -> Handlers] /\ swept' \in Times => TypeOK'
  OBVIOUS
<1> HIDE DEF DbTyped
<1>d. ASSUME NEW r \in Requests, Finish(r) PROVE req' \in [Requests -> Handlers]
  BY <1>0, <1>d DEF Finish
<1>1. CASE Complete
  <2>1. pocket' \in Snapshots
    BY <1>1, AgreedTerms, TimesAdd DEF Complete, NewPocket, Snapshots, States, LiveStates, Terms, Times
  <2>2. [from |-> "DRAFT", to |-> "CREATED", kind |-> "created", actor |-> "acceptor"] \in EventRows
    BY <1>0 DEF EventRows, States, LiveStates
  <2>3. events' \in Seq(EventRows) BY <1>1, <2>2 DEF Complete, Audit
  <2> QED BY <1>1, <2>1, <2>3 DEF Complete
<1>2. ASSUME NEW r \in Requests, NEW op \in Ops, NEW role \in Actors, Begin(r, op, role)
      PROVE  TypeOK'
  <2>1. [pc |-> "commit", op |-> op, role |-> role,
         now |-> IF op \in TimedOps THEN clock ELSE NoTime] \in Handlers
    BY <1>0 DEF Handlers
  <2> QED BY <1>2, <2>1 DEF Begin, dbVars
<1>3. ASSUME NEW r \in Requests,
             BeginCancel(r) \/ BeginFunding(r) \/ BeginEnterCode(r) \/ BeginReportIssue(r)
      PROVE  TypeOK'
  BY <1>0, <1>2, <1>3 DEF BeginCancel, BeginFunding, BeginEnterCode, BeginReportIssue, Ops
<1>4. ASSUME NEW r \in Requests, HandlerStep(r) PROVE TypeOK'
  <2>1. /\ req[r] \in Handlers /\ req[r].now \in Times /\ req[r].role \in Actors
    BY DEF Handlers
  <2>2. CASE CommitCancel(r)
    <3>1. CASE CancelDraft(req[r].role)
      <4>1. [from |-> "DRAFT", to |-> "CANCELLED", kind |-> "cancel", actor |-> req[r].role] \in EventRows
        BY <2>1 DEF EventRows, States, Terminal, EventKinds
      <4>2. pocket' \in Snapshots BY <3>1 DEF CancelDraft, Snapshots, States, Terminal
      <4>3. events' \in Seq(EventRows) BY <3>1, <4>1 DEF CancelDraft, Audit
      <4>4. req' \in [Requests -> Handlers] BY <2>2, <1>d DEF CommitCancel
      <4> QED BY <2>2, <3>1, <4>2, <4>3, <4>4 DEF CommitCancel, CancelDraft
    <3>2. CASE ~CancelDraft(req[r].role)
      <4>1. DbTyped BY <1>a, <1>b, <2>1, <2>2, <3>2 DEF CommitCancel
      <4> QED BY <1>c, <1>d, <2>2, <4>1 DEF CommitCancel
    <3> QED BY <3>1, <3>2
  <2>3. CASE CommitEvent(r)
    <3>1. DbTyped BY <1>a, <1>b, <2>1, <2>3 DEF CommitEvent
    <3>2. req' \in [Requests -> Handlers]
      <4>1. CASE Finish(r) BY <4>1, <1>d
      <4>2. CASE ~Finish(r)
        <5>1. [req[r] EXCEPT !.pc = "settle", !.now = req[r].now + terms.inspection] \in Handlers
          BY <2>1, AgreedTerms, TimesAdd DEF Handlers, Terms
        <5>2. req' = [req EXCEPT ![r] = [req[r] EXCEPT !.pc = "settle",
                                             !.now = req[r].now + terms.inspection]]
          BY <2>3, <4>2 DEF CommitEvent
        <5> QED BY <5>1, <5>2
      <4> QED BY <4>1, <4>2
    <3> QED BY <1>c, <2>3, <3>1, <3>2 DEF CommitEvent
  <2>4. CASE SettleAtOnce(r)
    <3>1. DbTyped BY <1>0, <1>a, <1>b, <2>4 DEF SettleAtOnce
    <3>2. req' \in [Requests -> Handlers]
      BY <1>d, <2>1, <2>4 DEF SettleAtOnce, Handlers
    <3> QED BY <1>c, <2>4, <3>1, <3>2 DEF SettleAtOnce
  <2>5. CASE AnswerRefused(r)
    BY <1>d, <2>5 DEF AnswerRefused, dbVars
  <2> QED BY <1>4, <2>2, <2>3, <2>4, <2>5 DEF HandlerStep
<1>5. CASE ConfirmDispatchFailure \/ OpenFrozenDispute \/ Concede \/ ForceRefund \/ ForcePayout
  <2>1. DbTyped /\ UNCHANGED <<req, swept>>
    BY <1>0, <1>a, <1>5 DEF ConfirmDispatchFailure, OpenFrozenDispute, Concede, ForceRefund,
       ForcePayout, Handle
  <2> QED BY <1>c, <2>1
<1>6. CASE AttestNonReceipt BY <1>6 DEF AttestNonReceipt
<1>7. ASSUME NEW e \in EffectKinds, RunEffect(e) PROVE TypeOK'
  <2>1. codeStored' \in BOOLEAN BY <1>7 DEF RunEffect
  <2>2. strikes' \in [{"buyer", "vendor"} -> Nat]
    <3>1. SanctionedRole(e) \in {"buyer", "vendor"} BY DEF SanctionedRole
    <3> QED BY <1>7, <3>1 DEF RunEffect
  <2> QED BY <1>7, <2>1, <2>2 DEF RunEffect
<1>8. ASSUME NEW e \in EffectKinds, LoseEffect(e) PROVE TypeOK'
  BY <1>8 DEF LoseEffect, dbVars
<1>9. CASE Crash BY <1>0, <1>9 DEF Crash, dbVars
<1>10. CASE SweepRead BY <1>0, <1>10 DEF SweepRead, dbVars
<1>11. CASE Sweep
  <2>1. DbTyped BY <1>0, <1>a, <1>11 DEF Sweep
  <2> QED BY <1>0, <1>c, <1>11, <2>1 DEF Sweep
<1>12. CASE SweepPassesBy BY <1>0, <1>12 DEF SweepPassesBy, dbVars
<1>13. CASE Tick BY <1>13 DEF Tick, dbVars
<1>14. CASE UNCHANGED vars BY <1>14 DEF vars
<1> QED BY <1>1, <1>3, <1>4, <1>5, <1>6, <1>7, <1>8, <1>9, <1>10, <1>11, <1>12, <1>13, <1>14
        DEF Next, HandlerStep

\* Every column and every process stays in its domain.
THEOREM TypeCorrect == Spec => []TypeOK
BY TypeInit, TypeStep, PTL DEF Spec

-----------------------------------------------------------------------------
(* The transition function. *)

\* Pocket.Transition is a function: an event that is legal in a state leads to
\* one state only, so the order of its switch does not matter.
THEOREM TransitionIsAFunction ==
    ASSUME NEW p, NEW now, NEW ev, NEW a, NEW b,
           Allows(p, now, ev, a), Allows(p, now, ev, b)
    PROVE  a = b
BY DEF Allows, TransitionTable, LegalMoves

\* The inspection window and the settlement share no instant and leave none
\* out: at any time a delivered pocket takes either the buyer's report or the
\* settlement, and never both.
THEOREM ReportOrSettle ==
    ASSUME NEW p \in Snapshots, p.state = "DELIVERED_PENDING", NEW now \in Nat
    PROVE  Allows(p, now, "settle_due", "SETTLED")
              <=> ~Allows(p, now, "buyer_report_issue", "DISPUTED")
<1>1. p.settleAfter \in Int
  BY DEF Snapshots, Times, NoTime
<1>2. /\ <<p.state, "settle_due", "SETTLED">> \in TransitionTable
      /\ <<p.state, "buyer_report_issue", "DISPUTED">> \in TransitionTable
  BY DEF TransitionTable, LegalMoves
<1>3. GuardHolds(p, now, "settle_due") <=> now >= p.settleAfter
  BY DEF GuardHolds
<1>4. GuardHolds(p, now, "buyer_report_issue") <=> now < p.settleAfter
  BY DEF GuardHolds
<1> QED
  BY <1>1, <1>2, <1>3, <1>4 DEF Allows

-----------------------------------------------------------------------------
(* The money rows. *)

\* A committed transition by what it does to the rows: a payment comes in;
FundMove(ev, now) ==
    /\ pocket.state = "CREATED" /\ pocket'.state = "FUNDED"
    /\ UNCHANGED <<legs, dispute>> /\ pocket'.settleAfter = pocket.settleAfter

\* an unfunded pocket closes;
CloseMove(ev, now) ==
    /\ pocket.state = "CREATED" /\ pocket'.state \in {"EXPIRED", "CANCELLED"}
    /\ UNCHANGED <<legs, dispute>> /\ pocket'.settleAfter = pocket.settleAfter

\* a code is accepted;
DeliverMove(ev, now) ==
    /\ ev = "code_accepted"
    /\ pocket.state \in {"FUNDED", "FROZEN"} /\ pocket'.state = "DELIVERED_PENDING"
    /\ UNCHANGED <<legs, dispute>> /\ pocket'.settleAfter = now + terms.inspection

\* a funded pocket stays with its buyer's money, frozen or not;
StayMove(ev, now) ==
    /\ pocket.state \in {"FUNDED", "FROZEN"} /\ pocket'.state \in {"FUNDED", "FROZEN"}
    /\ UNCHANGED <<legs, dispute>> /\ pocket'.settleAfter = pocket.settleAfter

\* a dispute is opened;
DisputeMove(ev, now) ==
    /\ \/ ev = "frozen_dispute" /\ pocket.state = "FROZEN"
       \/ ev = "buyer_report_issue" /\ pocket.state = "DELIVERED_PENDING"
    /\ pocket'.state = "DISPUTED"
    /\ RecordDispute(pocket.state, "DISPUTED", ev)
    /\ UNCHANGED legs /\ pocket'.settleAfter = pocket.settleAfter

\* the buyer is refunded;
RefundMove(ev, now) ==
    /\ pocket.state \in {"FUNDED", "FROZEN", "DISPUTED"} /\ pocket'.state = "REFUNDED"
    /\ RecordDispute(pocket.state, "REFUNDED", ev)
    /\ legs' = legs \cup RefundLegs(terms) /\ pocket'.settleAfter = pocket.settleAfter

\* or the vendor's side is paid.
PayoutMove(ev, now) ==
    /\ pocket.state \in {"DELIVERED_PENDING", "DISPUTED"} /\ pocket'.state = "SETTLED"
    /\ RecordDispute(pocket.state, "SETTLED", ev)
    /\ legs' = legs \cup PayoutLegs(terms) /\ pocket'.settleAfter = pocket.settleAfter

\* Every committed transition is one of these.
LEMMA Moves ==
    ASSUME TypeOK, NEW ev, NEW now, NEW actor, Apply(ev, now, actor)
    PROVE  \/ FundMove(ev, now) \/ CloseMove(ev, now) \/ DeliverMove(ev, now)
           \/ StayMove(ev, now) \/ DisputeMove(ev, now) \/ RefundMove(ev, now)
           \/ PayoutMove(ev, now)
<1> PICK to \in States : /\ Allows(pocket, now, ev, to)
                         /\ pocket' = NextSnapshot(terms, pocket, now, ev, to)
                         /\ legs' = legs \cup LegsOf(terms, ev)
                         /\ RecordDispute(pocket.state, to, ev)
                         /\ terms' = terms
    BY DEF Apply
<1>1. /\ pocket'.state = to
      /\ pocket'.settleAfter = IF ev = "code_accepted" THEN now + terms.inspection
                                                       ELSE pocket.settleAfter
  BY DEF NextSnapshot, TypeOK, Snapshots
<1>2. <<pocket.state, ev, to>> \in LegalMoves BY DEF Allows, TransitionTable
<1>3. \/ pocket.state = "CREATED" /\ ev = "funding_confirmed" /\ to = "FUNDED"
      \/ pocket.state = "CREATED" /\ ev \in {"funding_expired", "cancel"} /\ to \in {"EXPIRED", "CANCELLED"}
      \/ pocket.state \in {"FUNDED", "FROZEN"} /\ ev = "code_accepted" /\ to = "DELIVERED_PENDING"
      \/ /\ pocket.state \in {"FUNDED", "FROZEN"} /\ to \in {"FUNDED", "FROZEN"}
         /\ ev \in {"code_rejected", "delivery_deadline_lapsed"}
      \/ pocket.state = "FROZEN" /\ ev = "frozen_dispute" /\ to = "DISPUTED"
      \/ pocket.state = "DELIVERED_PENDING" /\ ev = "buyer_report_issue" /\ to = "DISPUTED"
      \/ pocket.state \in {"FUNDED", "FROZEN", "DISPUTED"} /\ ev \in RefundEvents /\ to = "REFUNDED"
      \/ pocket.state \in {"DELIVERED_PENDING", "DISPUTED"} /\ ev \in PayoutEvents /\ to = "SETTLED"
  BY <1>2 DEF LegalMoves, RefundEvents, PayoutEvents
<1>4. /\ ev \notin PayoutEvents \cup RefundEvents => legs' = legs
      /\ ev \in RefundEvents => legs' = legs \cup RefundLegs(terms) /\ ev # "code_accepted"
      /\ ev \in PayoutEvents => legs' = legs \cup PayoutLegs(terms) /\ ev # "code_accepted"
  BY DEF LegsOf, RefundEvents, PayoutEvents
<1>5. to \notin {"DISPUTED", "REFUNDED", "SETTLED"} => dispute' = dispute
  BY DEF RecordDispute
<1> QED BY <1>1, <1>3, <1>4, <1>5 DEF FundMove, CloseMove, DeliverMove, StayMove, DisputeMove,
           RefundMove, PayoutMove, RefundEvents, PayoutEvents

\* The rows of one pocket: legs, dispute and deadline columns agree on its state.
Ledger == CustodyConserved /\ DisputeInStep /\ RowsInStep

\* The part of Ledger that does not read the handlers.
LedgerRows ==
    /\ CustodyConserved /\ DisputeInStep
    /\ pocket.state \in {"DRAFT", "CREATED", "FUNDED", "FROZEN"} => pocket.settleAfter = NoTime
    /\ pocket.state = "DELIVERED_PENDING" => pocket.settleAfter # NoTime
    /\ pocket.state \notin {"DISPUTED", "REFUNDED", "SETTLED"} => dispute.state = "none"
    /\ dispute.state = "none" => dispute = NoDispute

\* A committed transition keeps the rows in step.
LEMMA LedgerApply ==
    ASSUME TypeOK, LedgerRows, NEW ev, NEW now \in Times, NEW actor,
           ev = "code_accepted" => now # NoTime, Apply(ev, now, actor)
    PROVE  LedgerRows'
<1>1. terms \in Terms /\ ValidTerms(terms) /\ terms' = terms
  BY AgreedTerms DEF Apply
<1>2. terms.amount \in Nat /\ terms.commission \in Nat /\ terms.inspection \in Nat
  BY <1>1 DEF Terms
<1> USE DEF LedgerRows
<1>3. CASE FundMove(ev, now) \/ CloseMove(ev, now) \/ StayMove(ev, now)
  <2>1. /\ pocket'.state \notin {"DISPUTED", "REFUNDED", "SETTLED", "DELIVERED_PENDING"}
        /\ pocket.state \notin {"DISPUTED", "REFUNDED", "SETTLED"}
        /\ pocket'.settleAfter = pocket.settleAfter /\ pocket.settleAfter = NoTime
        /\ legs' = legs /\ dispute' = dispute
    BY <1>3 DEF FundMove, CloseMove, StayMove
  <2>2. CustodyConserved' BY <2>1 DEF CustodyConserved
  <2>3. DisputeInStep' BY <2>1 DEF DisputeInStep, NoDispute
  <2> QED BY <2>1, <2>2, <2>3
<1>4. CASE DeliverMove(ev, now)
  <2>1. pocket'.settleAfter # NoTime
    BY <1>2, <1>4 DEF DeliverMove, Times, NoTime
  <2>2. CustodyConserved' BY <1>4 DEF DeliverMove, CustodyConserved
  <2>3. DisputeInStep' BY <1>4, <2>1 DEF DeliverMove, DisputeInStep, NoDispute
  <2> QED BY <1>4, <2>1, <2>2, <2>3 DEF DeliverMove
<1>5. CASE DisputeMove(ev, now)
  <2>1. dispute' = [state |-> "open", class |-> DisputeClassOf(ev), resolution |-> "none"]
    BY <1>5 DEF DisputeMove, RecordDispute
  <2>2. CustodyConserved' BY <1>5 DEF DisputeMove, CustodyConserved
  <2>3. DisputeInStep' BY <1>5, <2>1 DEF DisputeMove, DisputeInStep, DisputeClassOf
  <2> QED BY <1>5, <2>1, <2>2, <2>3 DEF DisputeMove, NoDispute
<1>6. CASE RefundMove(ev, now)
  <2>1. legs = {} BY <1>6 DEF RefundMove, CustodyConserved
  <2>2. CustodyConserved'
    BY <1>1, <1>6, <2>1 DEF RefundMove, CustodyConserved, RefundLegs, BuyerTotal
  <2>3. /\ dispute'.state = IF pocket.state = "DISPUTED" THEN "resolved" ELSE "none"
        /\ dispute'.resolution = IF pocket.state = "DISPUTED" THEN "refund" ELSE "none"
        /\ dispute'.class = dispute.class
        /\ dispute'.state = "none" => dispute' = NoDispute
    BY <1>6 DEF RefundMove, RecordDispute, DisputeInStep, NoDispute, TypeOK, Disputes
  <2>4. DisputeInStep' BY <1>6, <2>3 DEF RefundMove, DisputeInStep
  <2> QED BY <1>6, <2>2, <2>3, <2>4 DEF RefundMove
<1>7. CASE PayoutMove(ev, now)
  <2>1. legs = {} /\ legs' = PayoutLegs(terms) BY <1>7 DEF PayoutMove, CustodyConserved
  <2>2. terms.commission > 0 => terms.structure = "brokered"
    BY <1>1, <1>2 DEF ValidTerms, Terms
  <2>3. CustodyConserved'
    <3>1. pocket'.state = "SETTLED" BY <1>7 DEF PayoutMove
    <3>2. \A l \in legs' :
             \/ l = [direction |-> "payout", role |-> "vendor", amount |-> terms.amount]
             \/ l = [direction |-> "payout", role |-> "broker", amount |-> terms.commission]
      BY <2>1 DEF PayoutLegs
    <3>3. \A l \in legs' : /\ l.direction = "payout" /\ l.role \in {"vendor", "broker"}
                           /\ l.amount = IF l.role = "vendor" THEN terms.amount
                                                              ELSE terms.commission
      BY <3>2
    <3>4. \E l \in legs' : l.role = "vendor"
      <4>1. [direction |-> "payout", role |-> "vendor", amount |-> terms.amount] \in legs'
        BY <2>1 DEF PayoutLegs
      <4> QED BY <4>1
    <3>5. terms.commission > 0 => \E l \in legs' : l.role = "broker"
      <4> HAVE terms.commission > 0
      <4>1. [direction |-> "payout", role |-> "broker", amount |-> terms.commission] \in legs'
        BY <2>1, <2>2 DEF PayoutLegs
      <4> QED BY <4>1
    <3> QED BY <1>1, <3>1, <3>3, <3>4, <3>5 DEF CustodyConserved
  <2>4. /\ dispute'.state = IF pocket.state = "DISPUTED" THEN "resolved" ELSE "none"
        /\ dispute'.resolution = IF pocket.state = "DISPUTED" THEN "payout" ELSE "none"
        /\ dispute'.class = dispute.class
        /\ dispute'.state = "none" => dispute' = NoDispute
    BY <1>7 DEF PayoutMove, RecordDispute, DisputeInStep, NoDispute, TypeOK, Disputes
  <2>5. DisputeInStep' BY <1>7, <2>4 DEF PayoutMove, DisputeInStep
  <2> QED BY <1>7, <2>3, <2>4, <2>5 DEF PayoutMove
<1> QED BY <1>3, <1>4, <1>5, <1>6, <1>7, Moves


\* The rows are in step at the start.
LEMMA LedgerInit == Init => Ledger
<1> SUFFICES ASSUME Init PROVE Ledger
    OBVIOUS
<1>1. /\ pocket.state = "DRAFT" /\ pocket.settleAfter = NoTime /\ legs = {}
      /\ dispute = NoDispute
      /\ \A r \in Requests : req[r].pc = "idle"
  BY DEF Init, IdleHandler
<1> QED BY <1>1 DEF Ledger, CustodyConserved, DisputeInStep, RowsInStep, NoDispute

\* A handler that is about to commit an accepted code has read the clock.
Stamped == \A r \in Requests :
    req[r].pc = "commit" /\ req[r].op = "code_accepted" => req[r].now # NoTime

\* A step that leaves the pocket's rows alone keeps them in step.
LEMMA LedgerFrame ==
    LedgerRows /\ UNCHANGED <<terms, pocket, legs, dispute>> => LedgerRows'
BY DEF LedgerRows, CustodyConserved, DisputeInStep

\* Every step keeps the rows in step.
LEMMA LedgerStep == TypeOK /\ Ledger /\ [Next]_vars => Ledger'
<1> SUFFICES ASSUME TypeOK, LedgerRows, Stamped, [Next]_vars PROVE LedgerRows' /\ Stamped'
    BY DEF Ledger, LedgerRows, RowsInStep, Stamped
<1>0. clock \in Times /\ clock # NoTime /\ swept \in Times BY DEF TypeOK, Times, NoTime
<1>a. UNCHANGED <<terms, pocket, legs, dispute>> => LedgerRows' BY LedgerFrame
<1>b. UNCHANGED req => Stamped' BY DEF Stamped
<1>c. ASSUME NEW r \in Requests, Finish(r) PROVE Stamped'
  BY <1>c DEF Finish, Stamped, IdleHandler, TypeOK
<1>d. ASSUME NEW ev, NEW actor, NEW now \in Times, ev = "code_accepted" => now # NoTime,
             Apply(ev, now, actor)
      PROVE  LedgerRows'
  BY <1>d, LedgerApply
<1>e. Rollback => LedgerRows' BY <1>a DEF Rollback, dbVars
<1>1. CASE Complete
  <2>1. /\ pocket.state = "DRAFT" /\ pocket'.state = "CREATED" /\ pocket'.settleAfter = NoTime
        /\ UNCHANGED <<terms, legs, dispute, req>>
    BY <1>1 DEF Complete, NewPocket
  <2>2. LedgerRows' BY <2>1 DEF LedgerRows, CustodyConserved, DisputeInStep, NoDispute
  <2> QED BY <1>b, <2>1, <2>2
<1>2. ASSUME NEW r \in Requests, NEW op, NEW role, Begin(r, op, role)
      PROVE  LedgerRows' /\ Stamped'
  <2>1. LedgerRows' BY <1>2, <1>a DEF Begin, dbVars
  <2>2. req'[r].op = "code_accepted" => req'[r].now # NoTime
    BY <1>0, <1>2 DEF Begin, TimedOps, TypeOK
  <2>3. \A s \in Requests \ {r} : req'[s] = req[s] BY <1>2 DEF Begin, TypeOK
  <2> QED BY <2>1, <2>2, <2>3 DEF Stamped
<1>3. ASSUME NEW r \in Requests,
             BeginCancel(r) \/ BeginFunding(r) \/ BeginEnterCode(r) \/ BeginReportIssue(r)
      PROVE  LedgerRows' /\ Stamped'
  BY <1>2, <1>3 DEF BeginCancel, BeginFunding, BeginEnterCode, BeginReportIssue
<1>4. ASSUME NEW r \in Requests, HandlerStep(r) PROVE LedgerRows' /\ Stamped'
  <2>1. req[r] \in Handlers /\ req[r].now \in Times BY DEF TypeOK, Handlers
  <2>2. CASE CommitCancel(r)
    <3>1. CASE CancelDraft(req[r].role) /\ pocket.state = "DRAFT"
      <4>1. /\ pocket'.state = "CANCELLED" /\ pocket'.settleAfter = pocket.settleAfter
            /\ UNCHANGED <<terms, legs, dispute>>
        BY <3>1 DEF CancelDraft, TypeOK, Snapshots
      <4>2. LedgerRows'
        BY <3>1, <4>1 DEF LedgerRows, CustodyConserved, DisputeInStep, NoDispute
      <4> QED BY <1>c, <2>2, <4>2 DEF CommitCancel
    <3>2. CASE ~(CancelDraft(req[r].role) /\ pocket.state = "DRAFT")
      <4>1. LedgerRows' BY <1>d, <1>e, <2>1, <2>2, <3>2 DEF CommitCancel
      <4> QED BY <1>c, <2>2, <4>1 DEF CommitCancel
    <3> QED BY <3>1, <3>2
  <2>3. CASE CommitEvent(r)
    <3>1. LedgerRows'
      <4>1. CASE Apply(req[r].op, req[r].now, req[r].role)
        BY <1>d, <2>1, <2>3, <4>1 DEF CommitEvent, Stamped
      <4>2. CASE Rollback BY <1>e, <4>2
      <4> QED BY <2>3, <4>1, <4>2 DEF CommitEvent
    <3>2. Stamped'
      <4>1. CASE Finish(r) BY <4>1, <1>c
      <4>2. CASE ~Finish(r)
        <5>1. req' = [req EXCEPT ![r] = [req[r] EXCEPT !.pc = "settle",
                                             !.now = req[r].now + terms.inspection]]
          BY <2>3, <4>2 DEF CommitEvent
        <5>2. req'[r].pc = "settle" /\ \A s \in Requests \ {r} : req'[s] = req[s]
          BY <2>1, <5>1 DEF TypeOK, Handlers
        <5> QED BY <5>2 DEF Stamped
      <4> QED BY <4>1, <4>2
    <3> QED BY <3>1, <3>2
  <2>4. CASE SettleAtOnce(r)
    <3>1. LedgerRows' BY <1>0, <1>d, <1>e, <2>4 DEF SettleAtOnce
    <3>2. Stamped'
      <4>1. CASE Finish(r) BY <4>1, <1>c
      <4>2. CASE ~Finish(r)
        <5>1. req'[r].pc = "refused" /\ \A s \in Requests \ {r} : req'[s] = req[s]
          BY <2>1, <2>4, <4>2 DEF SettleAtOnce, TypeOK, Handlers
        <5> QED BY <5>1 DEF Stamped
      <4> QED BY <4>1, <4>2
    <3> QED BY <3>1, <3>2
  <2>5. CASE AnswerRefused(r)
    BY <1>a, <1>c, <2>5 DEF AnswerRefused, dbVars
  <2> QED BY <1>4, <2>2, <2>3, <2>4, <2>5 DEF HandlerStep
<1>5. CASE ConfirmDispatchFailure \/ OpenFrozenDispute \/ Concede \/ ForceRefund \/ ForcePayout
  <2>1. LedgerRows' /\ UNCHANGED req
    BY <1>0, <1>d, <1>5 DEF ConfirmDispatchFailure, OpenFrozenDispute, Concede, ForceRefund,
       ForcePayout, Handle
  <2> QED BY <1>b, <2>1
<1>6. CASE AttestNonReceipt BY <1>a, <1>b, <1>6 DEF AttestNonReceipt
<1>7. ASSUME NEW e \in EffectKinds, RunEffect(e) PROVE LedgerRows' /\ Stamped'
  BY <1>a, <1>b, <1>7 DEF RunEffect
<1>8. ASSUME NEW e \in EffectKinds, LoseEffect(e) PROVE LedgerRows' /\ Stamped'
  BY <1>a, <1>b, <1>8 DEF LoseEffect, dbVars
<1>9. CASE Crash BY <1>a, <1>9 DEF Crash, dbVars, Stamped, IdleHandler
<1>10. CASE SweepRead BY <1>a, <1>b, <1>10 DEF SweepRead, dbVars
<1>11. CASE Sweep
  <2>1. LedgerRows' BY <1>0, <1>d, <1>11 DEF Sweep, SweepRules
  <2> QED BY <1>b, <1>11, <2>1 DEF Sweep
<1>12. CASE SweepPassesBy BY <1>a, <1>b, <1>12 DEF SweepPassesBy, dbVars
<1>13. CASE Tick BY <1>a, <1>b, <1>13 DEF Tick, dbVars
<1>14. CASE UNCHANGED vars BY <1>a, <1>b, <1>14 DEF vars
<1> QED BY <1>1, <1>3, <1>4, <1>5, <1>6, <1>7, <1>8, <1>9, <1>10, <1>11, <1>12, <1>13, <1>14
        DEF Next, HandlerStep

\* The legs, the dispute row and the deadline columns agree with the state.
THEOREM LedgerHolds == Spec => []Ledger
BY LedgerInit, LedgerStep, TypeCorrect, PTL DEF Spec

\* The deadline columns, the dispute row and the stamped handlers agree with the
\* state: settle_after marks a delivery, a dispute row a pocket that was DISPUTED.
THEOREM RowsAgree == Spec => []RowsInStep
<1>1. Ledger => RowsInStep BY DEF Ledger
<1> QED BY <1>1, LedgerHolds, PTL

\* recordSettlementLegsTx: the buyer's money is returned whole to the buyer, or
\* paid out to the vendor and the broker, never some of both.
THEOREM MoneyIsConserved == Spec => []CustodyConserved
<1>1. Ledger => CustodyConserved BY DEF Ledger
<1> QED BY <1>1, LedgerHolds, PTL

\* recordDisputeTx: the dispute row follows the state, and its resolution the money.
THEOREM DisputeFollows == Spec => []DisputeInStep
<1>1. Ledger => DisputeInStep BY DEF Ledger
<1> QED BY <1>1, LedgerHolds, PTL

-----------------------------------------------------------------------------
(* Closed pockets. *)

\* No event is allowed in a closed pocket, nor in a draft.
LEMMA NoMoveFromTerminal ==
    ASSUME pocket.state \in Terminal, NEW ev, NEW now, NEW actor
    PROVE  ~Apply(ev, now, actor)
BY DEF Apply, Allows, TransitionTable, LegalMoves, Terminal

\* So no step changes the rows of a closed pocket.
LEMMA ClosedStays ==
    ASSUME [Next]_vars, pocket.state \in Terminal
    PROVE  UNCHANGED <<pocket, version, events, legs, dispute>>
<1>0. \A ev, now, actor : ~Apply(ev, now, actor) BY NoMoveFromTerminal
<1>1. pocket.state # "DRAFT" BY DEF Terminal
<1>2. ~Complete BY <1>1 DEF Complete
<1>3. CASE \E r \in Requests :
             BeginCancel(r) \/ BeginFunding(r) \/ BeginEnterCode(r) \/ BeginReportIssue(r)
  BY <1>3 DEF BeginCancel, BeginFunding, BeginEnterCode, BeginReportIssue, Begin, dbVars
<1>4. CASE \E r \in Requests : HandlerStep(r)
  BY <1>0, <1>1, <1>4
     DEF HandlerStep, CommitCancel, CommitEvent, SettleAtOnce, AnswerRefused, Rollback, dbVars
<1>5. ~(ConfirmDispatchFailure \/ OpenFrozenDispute \/ Concede \/ ForceRefund \/ ForcePayout)
  BY <1>0 DEF ConfirmDispatchFailure, OpenFrozenDispute, Concede, ForceRefund, ForcePayout, Handle
<1>6. CASE AttestNonReceipt BY <1>6 DEF AttestNonReceipt
<1>7. CASE \E e \in EffectKinds : RunEffect(e) \/ LoseEffect(e)
  BY <1>7 DEF RunEffect, LoseEffect, dbVars
<1>8. CASE Crash BY <1>8 DEF Crash, dbVars
<1>9. ~Sweep BY <1>0 DEF Sweep
<1>10. CASE SweepRead \/ SweepPassesBy BY <1>10 DEF SweepRead, SweepPassesBy, dbVars
<1>11. CASE Tick BY <1>11 DEF Tick, dbVars
<1>12. CASE UNCHANGED vars BY <1>12 DEF vars
<1> QED BY <1>2, <1>3, <1>4, <1>5, <1>6, <1>7, <1>8, <1>9, <1>10, <1>11, <1>12
        DEF Next, HandlerStep

\* ErrTerminal: whoever read a pocket before it closed, no step changes its row,
\* its log, its legs or its dispute afterwards.
THEOREM ClosedForGood == Spec => TerminalIsFinal
<1>1. [Next]_vars =>
          [pocket.state \in Terminal => UNCHANGED <<pocket, version, events, legs, dispute>>]_vars
  BY ClosedStays
<1> QED BY <1>1, PTL DEF Spec, TerminalIsFinal

-----------------------------------------------------------------------------
(* The refinement of Escrow. *)

\* Custody and ground as the rows show them, state by state.
BarsFit ==
    /\ pocket.state \in {"DRAFT", "CREATED"} => CustodyBar = "none"
    /\ pocket.state \in {"CANCELLED", "EXPIRED"} => CustodyBar = "void"
    /\ pocket.state \in {"FUNDED", "FROZEN", "DELIVERED_PENDING", "DISPUTED"} =>
           CustodyBar = "held"
    /\ pocket.state = "REFUNDED" => CustodyBar = "returned"
    /\ pocket.state = "SETTLED" => CustodyBar = "released"
    /\ pocket.state \in {"DRAFT", "CREATED", "FUNDED", "FROZEN"} => GroundBar = "none"
    /\ pocket.state = "DELIVERED_PENDING" => GroundBar = "delivered"
    /\ pocket.state = "DISPUTED" => GroundBar = "contested"

\* They follow from the rows being in step,
LEMMA Bars == LedgerRows => BarsFit
<1> SUFFICES ASSUME LedgerRows PROVE BarsFit
    OBVIOUS
<1>1. pocket.state \notin {"SETTLED", "REFUNDED"} => legs = {}
  BY DEF LedgerRows, CustodyConserved
<1>2. pocket.state = "REFUNDED" =>
          (\A l \in legs : l.direction = "refund") /\ (\E l \in legs : l.direction = "refund")
  <2> DEFINE refund == [direction |-> "refund", role |-> "buyer",
                        amount |-> terms.amount + terms.commission + terms.premium]
  <2>1. refund.direction = "refund" OBVIOUS
  <2>2. pocket.state = "REFUNDED" => legs = {refund} BY DEF LedgerRows, CustodyConserved
  <2> HIDE DEF refund
  <2> QED BY <2>1, <2>2
<1>3. pocket.state = "SETTLED" => \E l \in legs : l.direction = "payout"
  BY DEF LedgerRows, CustodyConserved
<1>4. pocket.state = "DISPUTED" => dispute.state # "none"
  BY DEF LedgerRows, DisputeInStep
<1>5. /\ pocket.state \in {"DRAFT", "CREATED"} => CustodyBar = "none"
      /\ pocket.state \in {"CANCELLED", "EXPIRED"} => CustodyBar = "void"
      /\ pocket.state \in {"FUNDED", "FROZEN", "DELIVERED_PENDING", "DISPUTED"} =>
             CustodyBar = "held"
  BY <1>1 DEF CustodyBar
<1>6. pocket.state = "REFUNDED" => CustodyBar = "returned" BY <1>2 DEF CustodyBar
<1>7. pocket.state = "SETTLED" => CustodyBar = "released" BY <1>3 DEF CustodyBar
<1>8. /\ pocket.state \in {"DRAFT", "CREATED", "FUNDED", "FROZEN"} => GroundBar = "none"
      /\ pocket.state = "DELIVERED_PENDING" => GroundBar = "delivered"
      /\ pocket.state = "DISPUTED" => GroundBar = "contested"
  BY <1>4 DEF LedgerRows, GroundBar
<1> QED BY <1>5, <1>6, <1>7, <1>8 DEF BarsFit

\* before a step and after it.
LEMMA BarsAfter == LedgerRows' => BarsFit'
BY Bars, PTL

\* A step that leaves the rows alone is a stutter of the escrow.
LEMMA EscrowFrame ==
    UNCHANGED <<pocket, legs, dispute>> => CustodyBar' = CustodyBar /\ GroundBar' = GroundBar
BY DEF CustodyBar, GroundBar

\* A committed transition is a step of the escrow.
LEMMA EscrowApply ==
    ASSUME TypeOK, LedgerRows, LedgerRows', NEW ev, NEW now, NEW actor, Apply(ev, now, actor)
    PROVE  E!Next \/ (CustodyBar' = CustodyBar /\ GroundBar' = GroundBar)
<1>1. CASE FundMove(ev, now)
  BY <1>1, Bars, BarsAfter DEF BarsFit, FundMove, E!Next, E!Fund
<1>2. CASE CloseMove(ev, now)
  <2>1. CustodyBar = "none" /\ CustodyBar' = "void" BY <1>2, Bars, BarsAfter DEF BarsFit, CloseMove
  <2>2. GroundBar' = GroundBar BY <1>2 DEF CloseMove, GroundBar
  <2> QED BY <2>1, <2>2 DEF E!Next, E!Void
<1>3. CASE DeliverMove(ev, now)
  BY <1>3, Bars, BarsAfter DEF BarsFit, DeliverMove, E!Next, E!Deliver
<1>4. CASE StayMove(ev, now)
  BY <1>4, Bars, BarsAfter DEF BarsFit, StayMove
<1>5. CASE DisputeMove(ev, now)
  BY <1>5, Bars, BarsAfter DEF BarsFit, DisputeMove, E!Next, E!Contest
<1>6. CASE RefundMove(ev, now)
  <2>1. /\ CustodyBar = "held" /\ CustodyBar' = "returned" /\ GroundBar \in {"none", "contested"}
    BY <1>6, Bars, BarsAfter DEF BarsFit, RefundMove
  <2>2. GroundBar' = GroundBar
    BY <1>6 DEF RefundMove, GroundBar, RecordDispute
  <2> QED BY <2>1, <2>2 DEF E!Next, E!Return
<1>7. CASE PayoutMove(ev, now)
  <2>1. /\ CustodyBar = "held" /\ CustodyBar' = "released"
        /\ GroundBar \in {"delivered", "contested"}
    BY <1>7, Bars, BarsAfter DEF BarsFit, PayoutMove
  <2>2. GroundBar' = GroundBar
    BY <1>7 DEF PayoutMove, GroundBar, RecordDispute
  <2> QED BY <2>1, <2>2 DEF E!Next, E!Release
<1> QED BY <1>1, <1>2, <1>3, <1>4, <1>5, <1>6, <1>7, Moves

\* Every step of the lifecycle is a step of the escrow, or leaves it alone.
LEMMA EscrowStep ==
    TypeOK /\ Ledger /\ Ledger' /\ [Next]_vars => [E!Next]_(E!vars)
<1> SUFFICES ASSUME TypeOK, LedgerRows, LedgerRows', [Next]_vars
             PROVE  E!Next \/ (CustodyBar' = CustodyBar /\ GroundBar' = GroundBar)
    BY DEF Ledger, LedgerRows, RowsInStep, E!vars
<1>a. ASSUME NEW ev, NEW now, NEW actor, Apply(ev, now, actor)
      PROVE  E!Next \/ (CustodyBar' = CustodyBar /\ GroundBar' = GroundBar)
  BY <1>a, EscrowApply
<1>b. UNCHANGED <<pocket, legs, dispute>> => CustodyBar' = CustodyBar /\ GroundBar' = GroundBar
  BY EscrowFrame
<1> DEFINE Moved == \E ev, now, actor : Apply(ev, now, actor)
           Still == UNCHANGED <<pocket, legs, dispute>>
<1>1. CASE Complete
  <2>1. pocket.state = "DRAFT" /\ pocket'.state = "CREATED"
    BY <1>1 DEF Complete, NewPocket
  <2> QED BY <2>1, Bars, BarsAfter DEF BarsFit
<1>2. CASE \E r \in Requests :
             BeginCancel(r) \/ BeginFunding(r) \/ BeginEnterCode(r) \/ BeginReportIssue(r)
  BY <1>b, <1>2 DEF BeginCancel, BeginFunding, BeginEnterCode, BeginReportIssue, Begin, dbVars
<1>3. ASSUME NEW r \in Requests, HandlerStep(r)
      PROVE  E!Next \/ (CustodyBar' = CustodyBar /\ GroundBar' = GroundBar)
  <2>1. CASE pocket.state = "DRAFT" /\ CancelDraft(req[r].role)
    <3>1. pocket'.state = "CANCELLED" /\ pocket'.settleAfter = pocket.settleAfter /\ dispute' = dispute
      BY <2>1 DEF CancelDraft, TypeOK, Snapshots
    <3>2. CustodyBar = "none" /\ CustodyBar' = "void" BY <2>1, <3>1, Bars, BarsAfter DEF BarsFit
    <3>3. GroundBar' = GroundBar BY <3>1 DEF GroundBar
    <3> QED BY <3>2, <3>3 DEF E!Next, E!Void
  <2>2. CASE ~(pocket.state = "DRAFT" /\ CancelDraft(req[r].role))
    <3>1. Moved \/ Still
      BY <1>3, <2>2
         DEF HandlerStep, CommitCancel, CommitEvent, SettleAtOnce, AnswerRefused, Rollback, dbVars
    <3> QED BY <1>a, <1>b, <3>1
  <2> QED BY <2>1, <2>2
<1>4. CASE ConfirmDispatchFailure \/ OpenFrozenDispute \/ Concede \/ ForceRefund \/ ForcePayout
  BY <1>a, <1>4 DEF ConfirmDispatchFailure, OpenFrozenDispute, Concede, ForceRefund, ForcePayout,
     Handle
<1>5. CASE AttestNonReceipt BY <1>b, <1>5 DEF AttestNonReceipt
<1>6. CASE \E e \in EffectKinds : RunEffect(e) \/ LoseEffect(e)
  BY <1>b, <1>6 DEF RunEffect, LoseEffect, dbVars
<1>7. CASE Crash BY <1>b, <1>7 DEF Crash, dbVars
<1>8. CASE Sweep BY <1>a, <1>8 DEF Sweep
<1>9. CASE SweepRead \/ SweepPassesBy BY <1>b, <1>9 DEF SweepRead, SweepPassesBy, dbVars
<1>10. CASE Tick BY <1>b, <1>10 DEF Tick, dbVars
<1>11. CASE UNCHANGED vars BY <1>b, <1>11 DEF vars
<1> QED BY <1>1, <1>2, <1>3, <1>4, <1>5, <1>6, <1>7, <1>8, <1>9, <1>10, <1>11
        DEF Next, HandlerStep

\* The lifecycle keeps the escrow's promise: money comes in once, leaves once, to
\* the vendor only after a delivery or a contest, and back after a delivery only
\* through a contest.
THEOREM ImplementsEscrow == Spec => EscrowSpec
<1>1. Init => E!Init
  <2>1. Init => LedgerRows BY LedgerInit DEF Ledger, LedgerRows, RowsInStep
  <2>2. Init => pocket.state = "DRAFT" BY DEF Init
  <2> QED BY <2>1, <2>2, Bars DEF BarsFit, E!Init
<1> QED BY <1>1, EscrowStep, LedgerHolds, TypeCorrect, PTL DEF Spec, EscrowSpec, E!Spec

-----------------------------------------------------------------------------
(* What an escrow promises, whatever implements it.                         *)

\* Money is released on a delivery or a contest, and returned without a
\* delivery or after a contest.
FairlyDivided ==
    /\ CustodyBar = "released" => GroundBar \in {"delivered", "contested"}
    /\ CustodyBar = "returned" => GroundBar \in {"none", "contested"}

\* A closed escrow stays closed and keeps its ground, money in custody goes one
\* way only, and a contest is not withdrawn.
CustodyMoves ==
    /\ CustodyBar \in {"released", "returned", "void"} => UNCHANGED <<CustodyBar, GroundBar>>
    /\ CustodyBar = "held" => CustodyBar' \in {"held", "released", "returned"}
    /\ GroundBar = "contested" => GroundBar' = "contested"
    /\ GroundBar = "delivered" => GroundBar' # "none"

CustodyMovesOnce == [][CustodyMoves]_(E!vars)

\* An escrow promises that much.
LEMMA EscrowPromise == EscrowSpec => [](E!TypeOK /\ FairlyDivided) /\ CustodyMovesOnce
<1>1. E!Init => E!TypeOK /\ FairlyDivided
  BY DEF E!Init, E!TypeOK, FairlyDivided
<1>2. E!TypeOK /\ FairlyDivided /\ [E!Next]_(E!vars) => (E!TypeOK /\ FairlyDivided)'
  BY DEF E!TypeOK, FairlyDivided, E!Next, E!Fund, E!Void, E!Deliver, E!Contest, E!Release,
     E!Return, E!vars
<1>3. E!TypeOK /\ [E!Next]_(E!vars) => [CustodyMoves]_(E!vars)
  BY DEF E!TypeOK, CustodyMoves, E!Next, E!Fund, E!Void, E!Deliver, E!Contest, E!Release,
     E!Return, E!vars
<1> QED BY <1>1, <1>2, <1>3, PTL DEF EscrowSpec, E!Spec, CustodyMovesOnce

\* So the buyer's money leaves custody once, to one side, and never against what
\* was established about the delivery.
THEOREM CustodyIsFair == Spec => [](E!TypeOK /\ FairlyDivided) /\ CustodyMovesOnce
BY ImplementsEscrow, EscrowPromise

-----------------------------------------------------------------------------
(* The audit log. *)

(***************************************************************************)
(* Who commits a transition: a handler with what it captured, an endpoint  *)
(* or the instant settlement at the clock of its transaction, the sweeper  *)
(* at the time of its claim.                                               *)
(***************************************************************************)
ByHandler(ev, now, actor) ==
    /\ \E r \in Requests :
           /\ req[r].pc = "commit" /\ now = req[r].now /\ actor = req[r].role
           /\ IF req[r].op = "cancel" THEN ev \in {"cancel", "vendor_cancel"}
                                      ELSE ev = req[r].op
           /\ req[r].op # "code_accepted" => req'[r] = IdleHandler
    /\ UNCHANGED swept

ByEndpoint(ev, now, actor) ==
    /\ now = clock /\ actor # "system"
    /\ ev \in {"settle_due", "refund_frozen", "frozen_dispute", "vendor_concede",
               "admin_force_refund", "admin_force_payout", "admin_force_payout_bad_faith"}
    /\ UNCHANGED swept

BySweeper(ev, now, actor) ==
    /\ swept # NoTime /\ now = swept /\ swept' = NoTime /\ actor = "system"
    /\ ev \in SweepRules /\ Due(ev, now)

Commits(ev, now, actor) ==
    /\ Apply(ev, now, actor)
    /\ ByHandler(ev, now, actor) \/ ByEndpoint(ev, now, actor) \/ BySweeper(ev, now, actor)

\* The rows that only a committed transition, Complete or CancelDraft writes.
logVars == <<terms, pocket, version, events, legs, dispute>>

\* A step that writes none of them: it runs or drops effects, and forgets neither
\* the attestation nor an issued code, nor does it turn the clock back.
Quiet ==
    /\ UNCHANGED logVars
    /\ \/ UNCHANGED strikes /\ todo' \subseteq todo
       \/ \E e \in EffectKinds : RunEffect(e)
    /\ attested => attested'
    /\ codeStored => codeStored'
    /\ clock <= clock'

\* Every step writes the log in one of three ways, or is quiet.
LEMMA LogSteps ==
    ASSUME TypeOK, [Next]_vars
    PROVE  \/ Complete
           \/ pocket.state = "DRAFT" /\ \E actor \in Actors : CancelDraft(actor)
           \/ \E ev : \E now \in Times, actor \in Actors : Commits(ev, now, actor)
           \/ Quiet
<1> USE DEF logVars, Quiet
<1>0. /\ {"system", "vendor", "buyer", "admin", "acceptor"} \subseteq Actors
      /\ clock \in Times /\ swept \in Times /\ clock \in Nat
      /\ \A r \in Requests : req[r].now \in Times /\ req[r].role \in Actors
                             /\ req[r].op \in Ops \cup {"none"}
  BY DEF TypeOK, Actors, Roles, Times, Handlers
<1> DEFINE Committed == \E ev : \E now \in Times, actor \in Actors : Commits(ev, now, actor)
<1>1. CASE \E r \in Requests :
             BeginCancel(r) \/ BeginFunding(r) \/ BeginEnterCode(r) \/ BeginReportIssue(r)
  BY <1>0, <1>1 DEF BeginCancel, BeginFunding, BeginEnterCode, BeginReportIssue, Begin, dbVars
<1>2. ASSUME NEW r \in Requests, HandlerStep(r)
      PROVE  \/ pocket.state = "DRAFT" /\ \E actor \in Actors : CancelDraft(actor)
             \/ Committed
             \/ Quiet
  <2>1. CASE CommitCancel(r)
    <3>1. ASSUME NEW ev \in {"cancel", "vendor_cancel"}, Apply(ev, req[r].now, req[r].role)
          PROVE  Committed
      <4>1. ByHandler(ev, req[r].now, req[r].role) 
        BY <2>1, <3>1 DEF CommitCancel, ByHandler, Finish, TypeOK
      <4> QED BY <1>0, <3>1, <4>1 DEF Commits
    <3> QED BY <1>0, <2>1, <3>1 DEF CommitCancel, Rollback, dbVars
  <2>2. CASE CommitEvent(r)
    <3>1. CASE Apply(req[r].op, req[r].now, req[r].role)
      <4>1. ByHandler(req[r].op, req[r].now, req[r].role) 
        BY <2>2, <3>1 DEF CommitEvent, ByHandler, Finish, Refused, Apply, TypeOK
      <4> QED BY <1>0, <3>1, <4>1 DEF Commits
    <3> QED BY <1>0, <2>2, <3>1 DEF CommitEvent, Rollback, dbVars
  <2>3. CASE SettleAtOnce(r)
    <3>1. CASE Apply("settle_due", clock, "vendor")
      <4>1. ByEndpoint("settle_due", clock, "vendor") BY <2>3 DEF SettleAtOnce, ByEndpoint
      <4> QED BY <1>0, <3>1, <4>1 DEF Commits
    <3> QED BY <1>0, <2>3, <3>1 DEF SettleAtOnce, Rollback, dbVars
  <2>4. CASE AnswerRefused(r) BY <1>0, <2>4 DEF AnswerRefused, dbVars
  <2> QED BY <1>2, <2>1, <2>2, <2>3, <2>4 DEF HandlerStep
<1>3. ASSUME NEW ev \in {"refund_frozen", "frozen_dispute", "vendor_concede",
                         "admin_force_refund", "admin_force_payout",
                         "admin_force_payout_bad_faith"},
             NEW actor \in Actors \ {"system"}, Handle(ev, actor)
      PROVE  Committed
  <2>1. Commits(ev, clock, actor) BY <1>3 DEF Handle, Commits, ByEndpoint
  <2> QED BY <1>0, <2>1
<1>4. CASE ConfirmDispatchFailure \/ OpenFrozenDispute \/ Concede \/ ForceRefund \/ ForcePayout
  <2>1. {"vendor", "buyer", "admin"} \subseteq Actors \ {"system"} BY <1>0
  <2> QED BY <1>3, <1>4, <2>1
          DEF ConfirmDispatchFailure, OpenFrozenDispute, Concede, ForceRefund, ForcePayout
<1>5. CASE AttestNonReceipt BY <1>0, <1>5 DEF AttestNonReceipt
<1>6. ASSUME NEW e \in EffectKinds, RunEffect(e) \/ LoseEffect(e) PROVE Quiet
  <2>1. UNCHANGED <<logVars, attested, clock>> BY <1>6 DEF RunEffect, LoseEffect, dbVars
  <2>2. LoseEffect(e) => UNCHANGED codeStored BY DEF LoseEffect, dbVars
  <2>3. RunEffect(e) => codeStored' = (codeStored \/ e = "release_code") BY DEF RunEffect
  <2>4. LoseEffect(e) => UNCHANGED strikes /\ todo' \subseteq todo BY DEF LoseEffect, dbVars
  <2>5. codeStored => codeStored' BY <1>6, <2>2, <2>3
  <2> QED BY <1>0, <1>6, <2>1, <2>4, <2>5
<1>7. CASE Crash \/ SweepRead \/ SweepPassesBy \/ Tick
  BY <1>0, <1>7 DEF Crash, SweepRead, SweepPassesBy, Tick, dbVars
<1>8. CASE Sweep
  <2>1. PICK ev \in SweepRules : Due(ev, swept) /\ Apply(ev, swept, "system")
    BY <1>8 DEF Sweep
  <2>2. Commits(ev, swept, "system") BY <1>8, <2>1 DEF Sweep, Commits, BySweeper
  <2> QED BY <1>0, <2>2
<1>9. CASE UNCHANGED vars BY <1>0, <1>9 DEF vars
<1> QED BY <1>1, <1>2, <1>4, <1>5, <1>6, <1>7, <1>8, <1>9 DEF Next, HandlerStep

\* What one more row does to the log.
LEMMA LogGrows ==
    ASSUME TypeOK, NEW row \in EventRows, events' = Append(events, row)
    PROVE  /\ Len(events') = Len(events) + 1 /\ Len(events) \in Nat
           /\ events' # <<>>
           /\ events'[Len(events')] = row
           /\ \A i \in 1..Len(events) : events'[i] = events[i]
           /\ \A kind : Logged(kind)' <=> Logged(kind) \/ row.kind = kind
<1>1. /\ Len(events') = Len(events) + 1 /\ Len(events) \in Nat
      /\ events' # <<>>
      /\ events'[Len(events) + 1] = row
      /\ \A i \in 1..Len(events) : events'[i] = events[i]
  BY AppendProperties DEF TypeOK
<1>2. ASSUME NEW kind PROVE Logged(kind)' <=> Logged(kind) \/ row.kind = kind
  <2>1. 1..Len(events') = (1..Len(events)) \cup {Len(events) + 1} BY <1>1
  <2> QED BY <1>1, <2>1 DEF Logged
<1> QED BY <1>1, <1>2

-----------------------------------------------------------------------------
(* The log is complete. *)

\* The row a committed transition appends, and the columns it moves.
LEMMA CommitRow ==
    ASSUME TypeOK, NEW ev, NEW now \in Times, NEW actor \in Actors, Apply(ev, now, actor)
    PROVE  \E to \in States :
             /\ <<pocket.state, ev, to>> \in LegalMoves /\ GuardHolds(pocket, now, ev)
             /\ pocket' = NextSnapshot(terms, pocket, now, ev, to) /\ pocket'.state = to
             /\ version' = version + 1
             /\ [from |-> pocket.state, to |-> to, kind |-> ev, actor |-> actor] \in EventRows
             /\ events' = Append(events, [from |-> pocket.state, to |-> to, kind |-> ev,
                                          actor |-> actor])
             /\ UNCHANGED <<terms, attested, codeStored, strikes, clock>>
<1> PICK to \in States : /\ Allows(pocket, now, ev, to)
                         /\ pocket' = NextSnapshot(terms, pocket, now, ev, to)
                         /\ version' = version + 1
                         /\ Audit(pocket.state, to, ev, actor)
                         /\ UNCHANGED <<terms, attested, codeStored, strikes, clock>>
    BY DEF Apply
<1>1. [from |-> pocket.state, to |-> to, kind |-> ev, actor |-> actor] \in EventRows
  BY EventTyped DEF TypeOK, EventRows, Snapshots
<1>2. pocket'.state = to BY DEF NextSnapshot, TypeOK, Snapshots
<1> QED BY <1>1, <1>2 DEF Allows, TransitionTable, Audit

\* A draft is completed or cancelled; every other row is a move of the table.
DraftMoves == {<<"DRAFT", "created", "CREATED">>, <<"DRAFT", "cancel", "CANCELLED">>}
Legal(row) == <<row.from, row.kind, row.to>> \in LegalMoves \cup DraftMoves

\* A row that leads from the pocket's state to its next state.
Chained(row) ==
    /\ row.from = pocket.state /\ row.to = pocket'.state /\ Legal(row)
    /\ events' = Append(events, row) /\ version' = version + 1

\* Every step that writes the log writes such a row.
LEMMA ChainedSteps ==
    ASSUME TypeOK, [Next]_vars
    PROVE  (\E row \in EventRows : Chained(row)) \/ UNCHANGED <<pocket, version, events>>
<1>1. CASE Complete
  <2> DEFINE row == [from |-> "DRAFT", to |-> "CREATED", kind |-> "created", actor |-> "acceptor"]
  <2>1. row \in EventRows BY DEF EventRows, States, LiveStates, Actors
  <2>2. Chained(row) BY <1>1 DEF Complete, Audit, NewPocket, Chained, Legal, DraftMoves
  <2> QED BY <2>1, <2>2
<1>2. ASSUME pocket.state = "DRAFT", NEW actor \in Actors, CancelDraft(actor)
      PROVE  \E row \in EventRows : Chained(row)
  <2> DEFINE row == [from |-> "DRAFT", to |-> "CANCELLED", kind |-> "cancel", actor |-> actor]
  <2>1. row \in EventRows BY DEF EventRows, States, Terminal, EventKinds
  <2>2. pocket'.state = "CANCELLED" BY <1>2 DEF CancelDraft, TypeOK, Snapshots
  <2>3. Chained(row) BY <1>2, <2>2 DEF CancelDraft, Audit, Chained, Legal, DraftMoves
  <2> QED BY <2>1, <2>3
<1>3. ASSUME NEW ev, NEW now \in Times, NEW actor \in Actors, Commits(ev, now, actor)
      PROVE  \E row \in EventRows : Chained(row)
  BY <1>3, CommitRow DEF Commits, Chained, Legal
<1> QED BY <1>1, <1>2, <1>3, LogSteps DEF Quiet, logVars

\* The chain holds at the start and is kept by every step.
LEMMA ChainStep == TypeOK /\ AuditLogFaithful /\ [Next]_vars => AuditLogFaithful'
<1> SUFFICES ASSUME TypeOK, AuditLogFaithful, [Next]_vars PROVE AuditLogFaithful'
    OBVIOUS
<1>1. ASSUME NEW row \in EventRows, Chained(row) PROVE AuditLogFaithful'
  <2>1. /\ Len(events') = Len(events) + 1 /\ Len(events) \in Nat /\ events' # <<>>
        /\ events'[Len(events')] = row
        /\ \A i \in 1..Len(events) : events'[i] = events[i]
    BY <1>1, LogGrows DEF Chained
  <2>2. Len(events') = version' BY <1>1, <2>1 DEF Chained, AuditLogFaithful
  <2>3. ASSUME NEW i \in 1..Len(events')
        PROVE  events'[i].from = IF i = 1 THEN "DRAFT" ELSE events'[i-1].to
    <3>1. CASE i \in 1..Len(events)
      <4>1. i # 1 => i-1 \in 1..Len(events) BY <2>1, <3>1
      <4> QED BY <2>1, <3>1, <4>1 DEF AuditLogFaithful
    <3>2. CASE i = Len(events')
      <4>1. events'[i].from = pocket.state BY <1>1, <2>1, <3>2 DEF Chained
      <4>2. CASE events = <<>>
        <5>1. i = 1 BY <2>1, <3>2, <4>2
        <5> QED BY <4>1, <4>2, <5>1 DEF AuditLogFaithful
      <4>3. CASE events # <<>>
        <5>1. Len(events) # 0 BY <4>3, EmptySeq DEF TypeOK
        <5>2. i # 1 /\ i - 1 = Len(events) /\ i - 1 \in 1..Len(events) BY <2>1, <3>2, <5>1
        <5>3. events'[i-1].to = events[Len(events)].to BY <2>1, <5>2
        <5> QED BY <4>1, <4>3, <5>2, <5>3 DEF AuditLogFaithful
      <4> QED BY <4>2, <4>3
    <3> QED BY <2>1, <3>1, <3>2
  <2>4. pocket'.state = events'[Len(events')].to BY <1>1, <2>1 DEF Chained
  <2> QED BY <2>1, <2>2, <2>3, <2>4 DEF AuditLogFaithful
<1>2. CASE UNCHANGED <<pocket, version, events>> BY <1>2 DEF AuditLogFaithful
<1> QED BY <1>1, <1>2, ChainedSteps

\* insertEventTx: whoever wrote it, the log is a gap-free chain of one row per
\* version from DRAFT to the state of the row.
THEOREM LogIsComplete == Spec => []AuditLogFaithful
<1>1. Init => AuditLogFaithful
  <2> SUFFICES ASSUME Init PROVE AuditLogFaithful
      OBVIOUS
  <2>1. pocket.state = "DRAFT" BY DEF Init
  <2>2. CASE events = <<>> BY <2>1, <2>2, DraftLog DEF AuditLogFaithful
  <2>3. CASE events # <<>>
    <3>1. /\ Len(events) = 1 /\ version = 1 /\ events[1].from = "DRAFT"
          /\ events[1].to = "DRAFT"
      BY <2>3, DraftLog DEF Conversion
    <3> QED BY <2>1, <2>3, <3>1 DEF AuditLogFaithful
  <2> QED BY <2>2, <2>3
<1> QED BY <1>1, ChainStep, TypeCorrect, PTL DEF Spec

-----------------------------------------------------------------------------
(* What handlers and the sweeper hold in memory. *)

\* A time read earlier is not in the future; a handler that compares a code
\* saw one issued; only a funding handler commits for the system.
MemoryInStep ==
    /\ swept <= clock
    /\ \A r \in Requests : req[r].pc = "commit" =>
           /\ req[r].now <= clock
           /\ req[r].op \in {"code_accepted", "code_rejected"} => codeStored
           /\ req[r].op # "funding_confirmed" => req[r].role # "system"

\* A step that starts no handler and no claim keeps this.
LEMMA MemoryFrame ==
    ASSUME TypeOK, MemoryInStep, clock' \in Nat, clock <= clock', codeStored => codeStored',
           swept' \in {swept, NoTime},
           \A r \in Requests : req'[r] = req[r] \/ req'[r].pc # "commit"
    PROVE  MemoryInStep'
<1>1. /\ clock \in Nat /\ swept \in Int /\ NoTime <= clock'
      /\ \A r \in Requests : req[r].now \in Int
  BY DEF TypeOK, Times, NoTime, Handlers
<1>2. swept' <= clock' BY <1>1 DEF MemoryInStep
<1>3. ASSUME NEW r \in Requests, req'[r].pc = "commit"
      PROVE  /\ req'[r].now <= clock'
             /\ req'[r].op \in {"code_accepted", "code_rejected"} => codeStored'
             /\ req'[r].op # "funding_confirmed" => req'[r].role # "system"
  BY <1>1, <1>3 DEF MemoryInStep
<1> QED BY <1>2, <1>3 DEF MemoryInStep

\* Every step keeps it.
LEMMA MemoryStep == TypeOK /\ TypeOK' /\ MemoryInStep /\ [Next]_vars => MemoryInStep'
<1> SUFFICES ASSUME TypeOK, TypeOK', MemoryInStep, [Next]_vars PROVE MemoryInStep'
    OBVIOUS
<1>0. clock \in Nat /\ clock' \in Nat BY DEF TypeOK
<1>a. /\ Complete \/ (\E actor \in Actors : CancelDraft(actor))
           \/ (\E ev : \E now \in Times, actor \in Actors : Commits(ev, now, actor))
           \/ Quiet
      => clock <= clock' /\ (codeStored => codeStored')
  BY <1>0 DEF Complete, CancelDraft, Commits, Apply, Quiet
<1>b. clock <= clock' /\ (codeStored => codeStored') BY <1>a, LogSteps
<1>c. ASSUME NEW r \in Requests, Finish(r)
      PROVE  \A s \in Requests : req'[s] = req[s] \/ req'[s].pc # "commit"
  BY <1>c DEF Finish, IdleHandler, TypeOK
<1>1. ASSUME NEW r \in Requests, NEW op, NEW role, Begin(r, op, role),
             op \in {"code_accepted", "code_rejected"} => codeStored,
             op # "funding_confirmed" => role # "system"
      PROVE  MemoryInStep'
  <2>1. /\ req'[r] = [pc |-> "commit", op |-> op, role |-> role,
                      now |-> IF op \in TimedOps THEN clock ELSE NoTime]
        /\ \A s \in Requests \ {r} : req'[s] = req[s]
        /\ UNCHANGED <<codeStored, swept, clock>>
    BY <1>1 DEF Begin, TypeOK, dbVars
  <2>2. req'[r].now <= clock BY <1>0, <2>1 DEF NoTime
  <2> QED BY <1>1, <2>1, <2>2 DEF MemoryInStep
<1>2. ASSUME NEW r \in Requests,
             BeginCancel(r) \/ BeginFunding(r) \/ BeginEnterCode(r) \/ BeginReportIssue(r)
      PROVE  MemoryInStep'
  BY <1>1, <1>2 DEF BeginCancel, BeginFunding, BeginEnterCode, BeginReportIssue, Roles
<1>3. ASSUME NEW r \in Requests, HandlerStep(r) PROVE MemoryInStep'
  <2>1. UNCHANGED swept
    BY <1>3 DEF HandlerStep, CommitCancel, CommitEvent, SettleAtOnce, AnswerRefused
  <2>2. \A s \in Requests : req'[s] = req[s] \/ req'[s].pc # "commit"
    <3>1. CASE Finish(r) BY <1>c, <3>1
    <3>2. CASE ~Finish(r)
      <4>1. \/ req' = [req EXCEPT ![r].pc = "settle", ![r].now = req[r].now + terms.inspection]
            \/ req' = [req EXCEPT ![r].pc = "refused"]
        BY <1>3, <3>2 DEF HandlerStep, CommitCancel, CommitEvent, SettleAtOnce, AnswerRefused
      <4> QED BY <4>1 DEF TypeOK, Handlers
    <3> QED BY <3>1, <3>2
  <2> QED BY <1>0, <1>b, <2>1, <2>2, MemoryFrame
<1>4. CASE SweepRead
  <2>1. swept' = clock' BY <1>4 DEF SweepRead
  <2>2. UNCHANGED <<codeStored, req, clock>> BY <1>4 DEF SweepRead, dbVars
  <2> QED BY <1>0, <2>1, <2>2 DEF MemoryInStep
<1>5. CASE Crash
  <2>1. swept' = NoTime BY <1>5 DEF Crash
  <2>2. \A s \in Requests : req'[s].pc # "commit" BY <1>5 DEF Crash, IdleHandler
  <2> QED BY <1>0, <1>b, <2>1, <2>2, MemoryFrame
<1>6. CASE UNCHANGED req /\ swept' \in {swept, NoTime}
  BY <1>0, <1>b, <1>6, MemoryFrame
<1>7. CASE \/ Complete \/ AttestNonReceipt \/ Sweep \/ SweepPassesBy \/ Tick
           \/ ConfirmDispatchFailure \/ OpenFrozenDispute \/ Concede \/ ForceRefund \/ ForcePayout
           \/ (\E e \in EffectKinds : RunEffect(e) \/ LoseEffect(e)) \/ UNCHANGED vars
  BY <1>6, <1>7
     DEF Complete, AttestNonReceipt, Sweep, SweepPassesBy, Tick, ConfirmDispatchFailure,
         OpenFrozenDispute, Concede, ForceRefund, ForcePayout, Handle, RunEffect, LoseEffect, vars
<1> QED BY <1>2, <1>3, <1>4, <1>5, <1>7 DEF Next, HandlerStep

\* It always holds.
THEOREM MemoryIsInStep == Spec => []MemoryInStep
<1>1. Init => MemoryInStep BY DEF Init, MemoryInStep, IdleHandler, NoTime
<1> QED BY <1>1, MemoryStep, TypeCorrect, PTL DEF Spec

\* So a transition is never committed at a time in the future.
LEMMA CommitsInThePast ==
    ASSUME TypeOK, MemoryInStep, NEW ev, NEW now \in Times, NEW actor, Commits(ev, now, actor)
    PROVE  now <= clock
<1>1. clock \in Nat BY DEF TypeOK
<1> QED BY <1>1 DEF Commits, ByHandler, ByEndpoint, BySweeper, MemoryInStep

-----------------------------------------------------------------------------
(* Timers and refunds. *)

\* A rule's WHERE clause implies the domain guard of its event.
LEMMA DueIsAllowed ==
    ASSUME TypeOK, NEW ev \in SweepRules, swept # NoTime, Due(ev, swept)
    PROVE  ~Refused(ev, swept)
<1>1. swept \in Int BY DEF TypeOK, Times, NoTime
<1>2. /\ pocket.fundingExpiresAt \in Int /\ pocket.deliveryDeadline \in Int
      /\ pocket.settleAfter \in Int
  BY DEF TypeOK, Snapshots, Times, NoTime
<1>3. GuardHolds(pocket, swept, ev)
  BY <1>1, <1>2 DEF GuardHolds, Due, DeadlineOf, SweepRules
<1>4. \E to \in States : <<pocket.state, ev, to>> \in LegalMoves
  BY DEF Due, SweptState, SweepRules, LegalMoves, States, LiveStates, Terminal
<1> QED BY <1>3, <1>4 DEF Refused, Allows, TransitionTable

\* sweepOne: a row the sweeper claims is never refused by the guard.
THEOREM ClaimsSucceed == Spec => []SweepClaimsSucceed
<1>1. TypeOK => SweepClaimsSucceed BY DueIsAllowed DEF SweepClaimsSucceed
<1> QED BY <1>1, TypeCorrect, PTL

\* The clock rules fire no earlier than their deadline by the real clock, though
\* each uses a clock read before its transaction; a report that wins the pocket
\* was made before settlement was due.
THEOREM TimersAreOnTime == Spec => TimersNeverFireEarly
<1> DEFINE OnTime ==
        /\ (pocket.state = "CREATED" /\ pocket'.state = "EXPIRED")
               => pocket.fundingExpiresAt <= clock
        /\ (pocket.state = "FUNDED" /\ pocket'.state = "FROZEN")
               => pocket.deliveryDeadline <= clock
        /\ (pocket.state = "DELIVERED_PENDING" /\ pocket'.state = "SETTLED")
               => pocket.settleAfter <= clock
        /\ (pocket.state = "FROZEN" /\ pocket'.state = "REFUNDED" /\ swept # swept')
               => attested /\ pocket.graceDeadline <= clock
        /\ (pocket.state = "DELIVERED_PENDING" /\ pocket'.state = "DISPUTED")
               => \E r \in Requests :
                     /\ req[r].op = "buyer_report_issue" /\ req'[r] = IdleHandler
                     /\ req[r].now < pocket.settleAfter
<1>1. ASSUME TypeOK, MemoryInStep, [Next]_vars PROVE OnTime
  <2> USE <1>1
  <2>1. CASE Complete BY <2>1 DEF Complete
  <2>2. CASE pocket.state = "DRAFT" BY <2>2
  <2>3. ASSUME NEW ev, NEW now \in Times, NEW actor \in Actors, Commits(ev, now, actor)
        PROVE  OnTime
    <3>1. now <= clock BY <2>3, CommitsInThePast
    <3>2. /\ <<pocket.state, ev, pocket'.state>> \in LegalMoves
          /\ GuardHolds(pocket, now, ev)
      BY <2>3, CommitRow DEF Commits
    <3>3. /\ clock \in Nat /\ now \in Int /\ NoTime <= clock
          /\ pocket.fundingExpiresAt \in Int /\ pocket.deliveryDeadline \in Int
          /\ pocket.settleAfter \in Int /\ pocket.graceDeadline \in Int
      BY DEF TypeOK, Snapshots, Times, NoTime
    <3>4. pocket.state = "CREATED" /\ pocket'.state = "EXPIRED" => ev = "funding_expired"
      BY <3>2 DEF LegalMoves
    <3>5. pocket.state = "FUNDED" /\ pocket'.state = "FROZEN" => ev = "delivery_deadline_lapsed"
      BY <3>2 DEF LegalMoves
    <3>6. pocket.state = "DELIVERED_PENDING" /\ pocket'.state = "SETTLED" => ev = "settle_due"
      BY <3>2 DEF LegalMoves
    <3>7. pocket.state = "FROZEN" /\ pocket'.state = "REFUNDED" => ev = "refund_frozen"
      BY <3>2 DEF LegalMoves
    <3>8. swept # swept' => Due(ev, now) BY <2>3 DEF Commits, ByHandler, ByEndpoint, BySweeper
    <3>9. /\ ev = "funding_expired" => pocket.fundingExpiresAt <= clock
          /\ ev = "delivery_deadline_lapsed" => pocket.deliveryDeadline <= clock
          /\ ev = "settle_due" => pocket.settleAfter <= clock
      BY <3>1, <3>2, <3>3 DEF GuardHolds
    <3>10. ev = "refund_frozen" /\ swept # swept' => attested /\ pocket.graceDeadline <= clock
      BY <3>1, <3>3, <3>8 DEF Due, DeadlineOf
    <3>11. ASSUME pocket.state = "DELIVERED_PENDING", pocket'.state = "DISPUTED"
           PROVE  \E r \in Requests :
                     /\ req[r].op = "buyer_report_issue" /\ req'[r] = IdleHandler
                     /\ req[r].now < pocket.settleAfter
      <4>1. ev = "buyer_report_issue" BY <3>2, <3>11 DEF LegalMoves
      <4>2. now < pocket.settleAfter BY <3>2, <4>1 DEF GuardHolds
      <4>3. ByHandler(ev, now, actor)
        BY <2>3, <4>1 DEF Commits, ByEndpoint, BySweeper, SweepRules
      <4> QED BY <4>1, <4>2, <4>3 DEF ByHandler
    <3> QED BY <3>4, <3>5, <3>6, <3>7, <3>9, <3>10, <3>11
  <2>4. CASE Quiet BY <2>4 DEF Quiet, logVars
  <2> QED BY <2>1, <2>2, <2>3, <2>4, LogSteps
<1>2. TypeOK /\ MemoryInStep /\ [Next]_vars => [OnTime]_vars BY <1>1
<1> QED BY <1>2, TypeCorrect, MemoryIsInStep, PTL DEF Spec, TimersNeverFireEarly

\* A refund the sweeper commits was attested and its grace period had lapsed.
LEMMA RefundStep ==
    TypeOK /\ MemoryInStep /\ RefundHasHumanCause /\ [Next]_vars => RefundHasHumanCause'
<1> SUFFICES ASSUME TypeOK, MemoryInStep, RefundHasHumanCause, [Next]_vars,
                    pocket'.state = "REFUNDED"
             PROVE  \/ events'[Len(events')].actor # "system"
                    \/ /\ events'[Len(events')].kind = "refund_frozen"
                       /\ attested'
                       /\ pocket'.graceDeadline # NoTime /\ pocket'.graceDeadline <= clock'
    BY DEF RefundHasHumanCause
<1>1. ~Complete BY DEF Complete, NewPocket
<1>2. ASSUME NEW actor, CancelDraft(actor) PROVE FALSE
  BY <1>2 DEF CancelDraft, TypeOK, Snapshots
<1>3. ASSUME NEW ev, NEW now \in Times, NEW actor \in Actors, Commits(ev, now, actor)
      PROVE  \/ events'[Len(events')].actor # "system"
             \/ /\ events'[Len(events')].kind = "refund_frozen"
                /\ attested'
                /\ pocket'.graceDeadline # NoTime /\ pocket'.graceDeadline <= clock'
  <2> DEFINE row == [from |-> pocket.state, to |-> pocket'.state, kind |-> ev, actor |-> actor]
  <2>1. /\ <<pocket.state, ev, "REFUNDED">> \in LegalMoves
        /\ pocket' = NextSnapshot(terms, pocket, now, ev, "REFUNDED")
        /\ row \in EventRows /\ events' = Append(events, row)
        /\ UNCHANGED <<attested, clock>>
    BY <1>3, CommitRow DEF Commits
  <2>2. events'[Len(events')] = row BY <2>1, LogGrows
  <2>3. ev # "funding_confirmed" BY <2>1 DEF LegalMoves
  <2>4. ~BySweeper(ev, now, actor) => actor # "system"
    BY <1>3, <2>1, <2>3 DEF Commits, ByHandler, ByEndpoint, MemoryInStep, LegalMoves
  <2>5. CASE BySweeper(ev, now, actor)
    <3>1. ev = "refund_frozen" BY <2>1, <2>5 DEF BySweeper, SweepRules, LegalMoves
    <3>2. attested /\ pocket.graceDeadline # NoTime /\ pocket.graceDeadline <= now
      BY <2>5, <3>1 DEF BySweeper, Due, DeadlineOf
    <3>3. pocket'.graceDeadline = pocket.graceDeadline
      BY <2>1, <3>1 DEF NextSnapshot, TypeOK, Snapshots
    <3>4. now <= clock /\ clock \in Int /\ now \in Int /\ pocket.graceDeadline \in Int
      BY <1>3, CommitsInThePast DEF TypeOK, Snapshots, Times, NoTime
    <3> QED BY <2>1, <2>2, <3>1, <3>2, <3>3, <3>4
  <2> QED BY <2>2, <2>4, <2>5
<1>4. CASE Quiet
  <2>1. UNCHANGED <<pocket, events>> /\ (attested => attested') /\ clock <= clock'
    BY <1>4 DEF Quiet, logVars
  <2>2. clock \in Int /\ clock' \in Int /\ pocket.graceDeadline \in Int
    BY TypeStep DEF TypeOK, Snapshots, Times, NoTime
  <2> QED BY <2>1, <2>2 DEF RefundHasHumanCause
<1> QED BY <1>1, <1>2, <1>3, <1>4, LogSteps

\* "No refund ever fires on a timer alone".
THEOREM RefundsHaveACause == Spec => []RefundHasHumanCause
<1>1. Init => RefundHasHumanCause BY DEF Init, RefundHasHumanCause
<1> QED BY <1>1, RefundStep, TypeCorrect, MemoryIsInStep, PTL DEF Spec

-----------------------------------------------------------------------------
(* Codes and payouts. *)

\* The attempt counter and the lock by the rows of the log.
Counted ==
    /\ pocket.attempts <= MaxAttempts
    /\ pocket.locked <=> pocket.attempts = MaxAttempts
    /\ Logged("code_accepted") => pocket.attempts < MaxAttempts
    /\ Logged("code_rejected") <=> pocket.attempts # 0
    /\ pocket.state = "DRAFT" => pocket.attempts = 0

\* An accepted code ends the phase in which codes are entered, and it is what a
\* pocket waiting for its settlement has seen.
Handed ==
    /\ Logged("code_accepted") =>
           pocket.state \notin {"DRAFT", "CREATED", "FUNDED", "FROZEN"} /\ codeStored
    /\ pocket.state = "DELIVERED_PENDING" => Logged("code_accepted")
    /\ pocket.state = "SETTLED" => Logged("code_accepted") \/ dispute.resolution = "payout"

\* A committed transition keeps the counter and the hand-off in step with the log.
LEMMA CodesApply ==
    ASSUME TypeOK, MemoryInStep, Ledger, Counted, Handed,
           NEW ev, NEW now \in Times, NEW actor \in Actors, Commits(ev, now, actor)
    PROVE  Counted' /\ Handed'
<1> DEFINE row(to) == [from |-> pocket.state, to |-> to, kind |-> ev, actor |-> actor]
<1>1. PICK to \in States :
          /\ <<pocket.state, ev, to>> \in LegalMoves /\ GuardHolds(pocket, now, ev)
          /\ pocket' = NextSnapshot(terms, pocket, now, ev, to) /\ pocket'.state = to
          /\ row(to) \in EventRows /\ events' = Append(events, row(to))
          /\ UNCHANGED codeStored
  BY CommitRow DEF Commits
<1>2. \A kind : Logged(kind)' <=> Logged(kind) \/ ev = kind
  <2>1. \A kind : Logged(kind)' <=> Logged(kind) \/ row(to).kind = kind BY <1>1, LogGrows
  <2> QED BY <2>1
<1>3. /\ pocket'.attempts = IF ev = "code_rejected" THEN pocket.attempts + 1 ELSE pocket.attempts
      /\ pocket'.locked = IF ev = "code_rejected" THEN pocket.attempts + 1 >= MaxAttempts
                                                  ELSE pocket.locked
      /\ pocket.attempts \in Nat /\ pocket.locked \in BOOLEAN /\ MaxAttempts \in Nat \ {0}
  BY <1>1, PocketAssumption DEF NextSnapshot, RegisterFailure, TypeOK, Snapshots
<1>4. ev \in {"code_accepted", "code_rejected"} =>
          /\ ~pocket.locked /\ pocket.state \in {"FUNDED", "FROZEN"} /\ codeStored
  <2>1. ev \in {"code_accepted", "code_rejected"} =>
            ~pocket.locked /\ pocket.state \in {"FUNDED", "FROZEN"}
    BY <1>1 DEF GuardHolds, LegalMoves
  <2>2. ev \in {"code_accepted", "code_rejected"} => ByHandler(ev, now, actor)
    BY DEF Commits, ByEndpoint, BySweeper, SweepRules
  <2>3. ev \in {"code_accepted", "code_rejected"} => codeStored
    BY <2>2 DEF ByHandler, MemoryInStep
  <2> QED BY <2>1, <2>3
<1>5. Counted'
  <2>1. CASE ev = "code_accepted"
    <3>1. pocket.attempts < MaxAttempts BY <1>3, <1>4, <2>1 DEF Counted
    <3> QED BY <1>1, <1>2, <1>3, <2>1, <3>1 DEF Counted, States, LiveStates, Terminal
  <2>2. CASE ev = "code_rejected"
    <3>1. pocket.attempts < MaxAttempts /\ ~Logged("code_accepted")
      BY <1>3, <1>4, <2>2 DEF Counted, Handed
    <3>2. ~Logged("code_accepted")' /\ Logged("code_rejected")' BY <1>2, <2>2, <3>1
    <3>3. pocket'.attempts = pocket.attempts + 1 BY <1>3, <2>2
    <3>4. pocket'.locked <=> pocket.attempts + 1 >= MaxAttempts BY <1>3, <2>2
    <3>5. pocket'.state # "DRAFT" BY <1>1 DEF States, LiveStates, Terminal
    <3>6. pocket'.attempts <= MaxAttempts /\ pocket'.attempts # 0 BY <1>3, <3>1, <3>3
    <3>7. pocket'.locked <=> pocket'.attempts = MaxAttempts BY <1>3, <3>1, <3>3, <3>4
    <3> QED BY <3>2, <3>5, <3>6, <3>7 DEF Counted
  <2>3. CASE ev \notin {"code_accepted", "code_rejected"}
    BY <1>1, <1>2, <1>3, <2>3 DEF Counted, States, LiveStates, Terminal
  <2> QED BY <2>1, <2>2, <2>3
<1>6. Handed'
  <2>1. CASE ev = "code_accepted"
    <3>1. to = "DELIVERED_PENDING" BY <1>1, <2>1 DEF LegalMoves
    <3> QED BY <1>1, <1>2, <1>4, <2>1, <3>1 DEF Handed
  <2>2. CASE ev # "code_accepted"
    <3>1. to # "DELIVERED_PENDING" BY <1>1, <2>2 DEF LegalMoves
    <3>2. to = "SETTLED" => \/ pocket.state = "DELIVERED_PENDING"
                            \/ pocket.state = "DISPUTED" /\ dispute'.resolution = "payout"
      <4>1. to = "SETTLED" => pocket.state \in {"DELIVERED_PENDING", "DISPUTED"}
        BY <1>1 DEF LegalMoves
      <4>2. pocket.state = "DISPUTED" => dispute.state = "open"
        BY DEF Ledger, DisputeInStep
      <4>3. Apply(ev, now, actor) /\ to = "SETTLED" => RecordDispute(pocket.state, "SETTLED", ev)
        BY <1>1, Moves DEF FundMove, CloseMove, DeliverMove, StayMove, DisputeMove, RefundMove,
           PayoutMove
      <4>4. ASSUME to = "SETTLED", pocket.state = "DISPUTED" PROVE dispute'.resolution = "payout"
        <5>1. dispute' = [dispute EXCEPT !.state = "resolved", !.resolution = "payout"]
          BY <4>2, <4>3, <4>4 DEF Commits, RecordDispute
        <5>2. dispute \in Disputes BY DEF TypeOK
        <5> QED BY <5>1, <5>2 DEF Disputes
      <4> QED BY <4>1, <4>4
    <3>3. pocket.state \notin {"DRAFT", "CREATED", "FUNDED", "FROZEN"} =>
              to \notin {"DRAFT", "CREATED", "FUNDED", "FROZEN"}
      BY <1>1 DEF LegalMoves
    <3> QED BY <1>1, <1>2, <2>2, <3>1, <3>2, <3>3 DEF Handed
  <2> QED BY <2>1, <2>2
<1> QED BY <1>5, <1>6

\* Every step keeps the counter and the hand-off in step with the log.
LEMMA CodesStep ==
    TypeOK /\ MemoryInStep /\ Ledger /\ Counted /\ Handed /\ [Next]_vars => Counted' /\ Handed'
<1> SUFFICES ASSUME TypeOK, MemoryInStep, Ledger, Counted, Handed, [Next]_vars
             PROVE  Counted' /\ Handed'
    OBVIOUS
<1>0. pocket.attempts \in Nat /\ MaxAttempts \in Nat \ {0}
  BY PocketAssumption DEF TypeOK, Snapshots
<1>a. ASSUME pocket.state = "DRAFT", pocket'.state \in {"CREATED", "CANCELLED"},
             pocket'.attempts = 0, pocket'.locked = FALSE,
             NEW row \in EventRows, events' = Append(events, row),
             row.kind \in {"created", "cancel"}
      PROVE  Counted' /\ Handed'
  <2>1. \A kind : Logged(kind)' <=> Logged(kind) \/ row.kind = kind BY <1>a, LogGrows
  <2>2. ~Logged("code_accepted")' /\ ~Logged("code_rejected")'
    BY <1>0, <1>a, <2>1 DEF Counted, Handed
  <2> QED BY <1>0, <1>a, <2>2 DEF Counted, Handed
<1>1. CASE Complete
  <2> DEFINE row == [from |-> "DRAFT", to |-> "CREATED", kind |-> "created", actor |-> "acceptor"]
  <2>1. row \in EventRows BY DEF EventRows, States, LiveStates, Actors
  <2>2. row.kind = "created" /\ events' = Append(events, row) BY <1>1 DEF Complete, Audit
  <2> HIDE DEF row
  <2> QED BY <1>1, <1>a, <2>1, <2>2 DEF Complete, NewPocket
<1>2. ASSUME pocket.state = "DRAFT", NEW actor \in Actors, CancelDraft(actor)
      PROVE  Counted' /\ Handed'
  <2> DEFINE row == [from |-> "DRAFT", to |-> "CANCELLED", kind |-> "cancel", actor |-> actor]
  <2>1. row \in EventRows BY DEF EventRows, States, Terminal, EventKinds
  <2>2. row.kind = "cancel" /\ events' = Append(events, row) BY <1>2 DEF CancelDraft, Audit
  <2>3. /\ pocket'.state = "CANCELLED" /\ pocket'.attempts = pocket.attempts
        /\ pocket'.locked = pocket.locked /\ pocket.locked \in BOOLEAN
    BY <1>2 DEF CancelDraft, TypeOK, Snapshots
  <2>4. pocket'.attempts = 0 /\ pocket'.locked = FALSE BY <1>0, <1>2, <2>3 DEF Counted
  <2> HIDE DEF row
  <2> QED BY <1>2, <1>a, <2>1, <2>2, <2>3, <2>4
<1>3. ASSUME NEW ev, NEW now \in Times, NEW actor \in Actors, Commits(ev, now, actor)
      PROVE  Counted' /\ Handed'
  BY <1>3, CodesApply
<1>4. CASE Quiet
  <2>1. UNCHANGED <<pocket, events, dispute>> /\ (codeStored => codeStored')
    BY <1>4 DEF Quiet, logVars
  <2>2. \A kind : Logged(kind)' <=> Logged(kind) BY <2>1 DEF Logged
  <2> QED BY <2>1, <2>2 DEF Counted, Handed
<1> QED BY <1>1, <1>2, <1>3, <1>4, LogSteps

\* They hold throughout.
THEOREM CodesInStep == Spec => [](Counted /\ Handed)
<1>1. Init => Counted /\ Handed
  <2> SUFFICES ASSUME Init PROVE Counted /\ Handed
      OBVIOUS
  <2>1. pocket.attempts = 0 /\ pocket.locked = FALSE /\ pocket.state = "DRAFT" BY DEF Init
  <2>2. ~Logged("code_accepted") /\ ~Logged("code_rejected")
    BY DraftLog DEF Logged, Conversion
  <2> QED BY <2>1, <2>2, PocketAssumption DEF Counted, Handed
<1> QED BY <1>1, CodesStep, TypeCorrect, MemoryIsInStep, LedgerHolds, PTL DEF Spec

\* The rows of the log that record a rejected code.
RejectedRows == {i \in 1..Len(events) : events[i].kind = "code_rejected"}

AttemptsCounted == IsFiniteSet(RejectedRows) /\ Cardinality(RejectedRows) = pocket.attempts

\* Every step keeps the counter at the number of those rows.
LEMMA AttemptsStep == TypeOK /\ Counted /\ AttemptsCounted /\ [Next]_vars => AttemptsCounted'
<1> SUFFICES ASSUME TypeOK, Counted, AttemptsCounted, [Next]_vars PROVE AttemptsCounted'
    OBVIOUS
<1>a. ASSUME NEW row \in EventRows, events' = Append(events, row)
      PROVE  RejectedRows' = IF row.kind = "code_rejected" THEN RejectedRows \cup {Len(events) + 1}
                                                           ELSE RejectedRows
  <2>1. /\ Len(events') = Len(events) + 1 /\ Len(events) \in Nat
        /\ events'[Len(events) + 1] = row
        /\ \A i \in 1..Len(events) : events'[i] = events[i]
    BY <1>a, LogGrows
  <2>2. 1..Len(events') = (1..Len(events)) \cup {Len(events) + 1} BY <2>1
  <2> QED BY <2>1, <2>2 DEF RejectedRows
<1>b. Len(events) + 1 \notin RejectedRows BY LenProperties DEF TypeOK, RejectedRows
<1>1. CASE Complete
  <2> DEFINE row == [from |-> "DRAFT", to |-> "CREATED", kind |-> "created", actor |-> "acceptor"]
  <2>1. row \in EventRows BY DEF EventRows, States, LiveStates, Actors
  <2>2. row.kind = "created" /\ events' = Append(events, row) BY <1>1 DEF Complete, Audit
  <2>3. pocket'.attempts = pocket.attempts BY <1>1 DEF Complete, NewPocket, Counted
  <2> HIDE DEF row
  <2>4. RejectedRows' = RejectedRows BY <1>a, <2>1, <2>2
  <2> QED BY <2>3, <2>4 DEF AttemptsCounted
<1>2. ASSUME pocket.state = "DRAFT", NEW actor \in Actors, CancelDraft(actor)
      PROVE  AttemptsCounted'
  <2> DEFINE row == [from |-> "DRAFT", to |-> "CANCELLED", kind |-> "cancel", actor |-> actor]
  <2>1. row \in EventRows BY DEF EventRows, States, Terminal, EventKinds
  <2>2. row.kind = "cancel" /\ events' = Append(events, row) BY <1>2 DEF CancelDraft, Audit
  <2>3. pocket'.attempts = pocket.attempts BY <1>2 DEF CancelDraft, TypeOK, Snapshots
  <2> HIDE DEF row
  <2>4. RejectedRows' = RejectedRows BY <1>a, <2>1, <2>2
  <2> QED BY <2>3, <2>4 DEF AttemptsCounted
<1>3. ASSUME NEW ev, NEW now \in Times, NEW actor \in Actors, Commits(ev, now, actor)
      PROVE  AttemptsCounted'
  <2> DEFINE row(to) == [from |-> pocket.state, to |-> to, kind |-> ev, actor |-> actor]
  <2>1. PICK to \in States :
            /\ pocket' = NextSnapshot(terms, pocket, now, ev, to)
            /\ row(to) \in EventRows /\ events' = Append(events, row(to))
    BY <1>3, CommitRow DEF Commits
  <2>2. pocket'.attempts = IF ev = "code_rejected" THEN pocket.attempts + 1 ELSE pocket.attempts
    BY <2>1 DEF NextSnapshot, RegisterFailure, TypeOK, Snapshots
  <2>3. RejectedRows' = IF ev = "code_rejected" THEN RejectedRows \cup {Len(events) + 1}
                                                ELSE RejectedRows
    <3>1. row(to).kind = ev OBVIOUS
    <3> HIDE DEF row
    <3> QED BY <1>a, <2>1, <3>1
  <2>4. CASE ev = "code_rejected"
    <3>1. /\ IsFiniteSet(RejectedRows \cup {Len(events) + 1})
          /\ Cardinality(RejectedRows \cup {Len(events) + 1}) = Cardinality(RejectedRows) + 1
      BY <1>b, FS_AddElement DEF AttemptsCounted
    <3> QED BY <2>2, <2>3, <2>4, <3>1 DEF AttemptsCounted
  <2>5. CASE ev # "code_rejected" BY <2>2, <2>3, <2>5 DEF AttemptsCounted
  <2> QED BY <2>4, <2>5
<1>4. CASE Quiet
  <2>1. UNCHANGED <<pocket, events>> BY <1>4 DEF Quiet, logVars
  <2>2. RejectedRows' = RejectedRows BY <2>1 DEF RejectedRows
  <2> QED BY <2>1, <2>2 DEF AttemptsCounted
<1> QED BY <1>1, <1>2, <1>3, <1>4, LogSteps

\* RegisterFailure under concurrent handlers: the counter is the number of rejected
\* entries on record, it never passes the limit, and no code is accepted once the
\* limit is reached.
THEOREM LockoutIsKept == Spec => []LockoutHolds
<1>1. Init => AttemptsCounted
  <2> SUFFICES ASSUME Init PROVE AttemptsCounted
      OBVIOUS
  <2>1. RejectedRows = {} /\ pocket.attempts = 0
    <3>1. pocket.attempts = 0 BY DEF Init
    <3>2. \A i \in 1..Len(events) : events[i].kind # "code_rejected" BY DraftLog DEF Conversion
    <3> QED BY <3>1, <3>2 DEF RejectedRows
  <2> QED BY <2>1, FS_EmptySet DEF AttemptsCounted
<1>2. Counted /\ AttemptsCounted => LockoutHolds
  BY DEF Counted, AttemptsCounted, RejectedRows, LockoutHolds, Logged
<1> QED BY <1>1, <1>2, AttemptsStep, TypeCorrect, CodesInStep, PTL DEF Spec

\* Rows #11 and #15: a settled pocket had its code entered, or was disputed and an
\* admin decided for the vendor (then possibly without any code).
THEOREM PayoutsAreEarned == Spec => []PayoutHasHandoffOrArbitration
<1>1. Handed => PayoutHasHandoffOrArbitration BY DEF Handed, PayoutHasHandoffOrArbitration
<1> QED BY <1>1, CodesInStep, PTL

-----------------------------------------------------------------------------
(* Sanctions. *)

Sanctions == {"sanction_vendor", "sanction_buyer"}

\* No strike and no queued sanction before the arbitration that calls for it;
\* a queued sanction is the only one, and no strike was given yet.
StrikesInStep ==
    /\ pocket.state \notin Terminal =>
           strikes["vendor"] = 0 /\ strikes["buyer"] = 0 /\ todo \cap Sanctions = {}
    /\ "sanction_vendor" \in todo => Logged("admin_force_refund") /\ "sanction_buyer" \notin todo
    /\ "sanction_buyer" \in todo => Logged("admin_force_payout_bad_faith")
    /\ todo \cap Sanctions # {} => strikes["vendor"] = 0 /\ strikes["buyer"] = 0
    /\ SanctionsAreEarned

\* Every step keeps this.
LEMMA StrikesStep == TypeOK /\ StrikesInStep /\ [Next]_vars => StrikesInStep'
<1> SUFFICES ASSUME TypeOK, StrikesInStep, [Next]_vars PROVE StrikesInStep'
    OBVIOUS
<1>0. strikes["vendor"] \in Nat /\ strikes["buyer"] \in Nat BY DEF TypeOK
<1>a. ASSUME pocket.state \notin Terminal, UNCHANGED <<strikes, todo>>,
             \A kind : Logged(kind) => Logged(kind)'
      PROVE  StrikesInStep'
  BY <1>0, <1>a DEF StrikesInStep, SanctionsAreEarned
<1>b. \A row \in EventRows :
          events' = Append(events, row) => \A kind : Logged(kind) => Logged(kind)'
  BY LogGrows
<1>1. CASE Complete
  <2> DEFINE row == [from |-> "DRAFT", to |-> "CREATED", kind |-> "created", actor |-> "acceptor"]
  <2>1. row \in EventRows BY DEF EventRows, States, LiveStates, Actors
  <2>2. events' = Append(events, row) BY <1>1 DEF Complete, Audit
  <2>3. pocket.state \notin Terminal /\ UNCHANGED <<strikes, todo>>
    BY <1>1 DEF Complete, Terminal
  <2> QED BY <1>a, <1>b, <2>1, <2>2, <2>3
<1>2. ASSUME pocket.state = "DRAFT", NEW actor \in Actors, CancelDraft(actor)
      PROVE  StrikesInStep'
  <2> DEFINE row == [from |-> "DRAFT", to |-> "CANCELLED", kind |-> "cancel", actor |-> actor]
  <2>1. row \in EventRows BY DEF EventRows, States, Terminal, EventKinds
  <2>2. events' = Append(events, row) BY <1>2 DEF CancelDraft, Audit
  <2>3. pocket.state \notin Terminal /\ UNCHANGED <<strikes, todo>>
    BY <1>2 DEF CancelDraft, Terminal
  <2> QED BY <1>a, <1>b, <2>1, <2>2, <2>3
<1>3. ASSUME NEW ev, NEW now \in Times, NEW actor \in Actors, Commits(ev, now, actor)
      PROVE  StrikesInStep'
  <2> DEFINE row(to) == [from |-> pocket.state, to |-> to, kind |-> ev, actor |-> actor]
  <2>1. PICK to \in States :
            /\ <<pocket.state, ev, to>> \in LegalMoves /\ pocket'.state = to
            /\ row(to) \in EventRows /\ events' = Append(events, row(to))
            /\ UNCHANGED strikes
    BY <1>3, CommitRow DEF Commits
  <2>2. \A kind : Logged(kind)' <=> Logged(kind) \/ ev = kind
    <3>1. \A kind : Logged(kind)' <=> Logged(kind) \/ row(to).kind = kind BY <2>1, LogGrows
    <3> QED BY <3>1
  <2>3. todo' = todo \cup EffectsOf(ev) BY <1>3 DEF Commits, Apply
  <2>4. pocket.state \notin Terminal BY <2>1 DEF LegalMoves, Terminal
  <2>5. /\ strikes'["vendor"] = 0 /\ strikes'["buyer"] = 0
        /\ "sanction_vendor" \in todo' => ev = "admin_force_refund"
        /\ "sanction_buyer" \in todo' => ev = "admin_force_payout_bad_faith"
    BY <2>1, <2>3, <2>4 DEF StrikesInStep, EffectsOf, Sanctions
  <2>6. ev \in {"admin_force_refund", "admin_force_payout_bad_faith"} => to \in Terminal
    BY <2>1 DEF LegalMoves, Terminal
  <2> QED BY <2>1, <2>2, <2>5, <2>6 DEF StrikesInStep, SanctionsAreEarned, Sanctions
<1>4. CASE Quiet
  <2>1. UNCHANGED <<pocket, events>> BY <1>4 DEF Quiet, logVars
  <2>2. \A kind : Logged(kind)' <=> Logged(kind) BY <2>1 DEF Logged
  <2>3. CASE UNCHANGED strikes /\ todo' \subseteq todo
    BY <2>1, <2>2, <2>3 DEF StrikesInStep, SanctionsAreEarned
  <2>4. ASSUME NEW e \in EffectKinds, RunEffect(e) PROVE StrikesInStep'
    <3>1. CASE e = "release_code"
      <4>1. UNCHANGED strikes /\ todo' \subseteq todo BY <2>4, <3>1 DEF RunEffect
      <4> QED BY <2>3, <4>1
    <3>2. CASE e = "sanction_vendor"
      <4>1. /\ strikes'["vendor"] = 1 /\ strikes'["buyer"] = 0
            /\ todo' = todo \ {e} /\ e \in todo
        BY <2>4, <3>2 DEF RunEffect, SanctionedRole, StrikesInStep, Sanctions, TypeOK
      <4>2. Logged("admin_force_refund") /\ pocket.state \in Terminal /\ todo' \cap Sanctions = {}
        BY <3>2, <4>1 DEF StrikesInStep, Sanctions
      <4> QED BY <2>1, <2>2, <4>1, <4>2 DEF StrikesInStep, SanctionsAreEarned, Sanctions
    <3>3. CASE e = "sanction_buyer"
      <4>1. /\ strikes'["vendor"] = 0 /\ strikes'["buyer"] = 1
            /\ todo' = todo \ {e} /\ e \in todo
        BY <2>4, <3>3 DEF RunEffect, SanctionedRole, StrikesInStep, Sanctions, TypeOK
      <4>2. /\ Logged("admin_force_payout_bad_faith") /\ pocket.state \in Terminal
            /\ todo' \cap Sanctions = {}
        BY <3>3, <4>1 DEF StrikesInStep, Sanctions
      <4> QED BY <2>1, <2>2, <4>1, <4>2 DEF StrikesInStep, SanctionsAreEarned, Sanctions
    <3> QED BY <3>1, <3>2, <3>3 DEF EffectKinds
  <2> QED BY <1>4, <2>3, <2>4 DEF Quiet
<1> QED BY <1>1, <1>2, <1>3, <1>4, LogSteps

\* A strike needs the arbitration that calls for it and is given once, though
\* RecordSanction itself is not idempotent.
THEOREM SanctionsHaveCause == Spec => []SanctionsAreEarned
<1>1. Init => StrikesInStep BY DEF Init, StrikesInStep, SanctionsAreEarned
<1>2. StrikesInStep => SanctionsAreEarned BY DEF StrikesInStep
<1> QED BY <1>1, <1>2, StrikesStep, TypeCorrect, PTL DEF Spec

-----------------------------------------------------------------------------
(* The history of a pocket. *)

\* How far a pocket has come.  Every move leads on, but for a rejected code.
Rank(s) ==
    CASE s = "DRAFT" -> 0
      [] s = "CREATED" -> 1
      [] s = "FUNDED" -> 2
      [] s = "FROZEN" -> 3
      [] s = "DELIVERED_PENDING" -> 4
      [] s = "DISPUTED" -> 5
      [] s \in Terminal -> 6

MoneyEvents == PayoutEvents \cup RefundEvents

\* The ranks of the states.
LEMMA Ranks ==
    /\ Rank("DRAFT") = 0 /\ Rank("CREATED") = 1 /\ Rank("FUNDED") = 2 /\ Rank("FROZEN") = 3
    /\ Rank("DELIVERED_PENDING") = 4 /\ Rank("DISPUTED") = 5
    /\ Rank("SETTLED") = 6 /\ Rank("REFUNDED") = 6 /\ Rank("CANCELLED") = 6
    /\ Rank("EXPIRED") = 6
BY DEF Rank, Terminal

\* Where a legal row leads, and that a kind of move, once made, is behind the pocket.
LEMMA MovesLeadOn ==
    ASSUME NEW from, NEW kind, NEW to, <<from, kind, to>> \in LegalMoves \cup DraftMoves
    PROVE  /\ from \in States \cup {"DRAFT"} /\ to \in States
           /\ Rank(from) \in 0..5 /\ Rank(to) \in 1..6
           /\ kind # "code_rejected" => Rank(from) < Rank(to)
           /\ kind = "code_rejected" => from = to
           /\ kind \in MoneyEvents => Rank(to) = 6
BY Ranks DEF LegalMoves, DraftMoves, States, LiveStates, Terminal, MoneyEvents,
             PayoutEvents, RefundEvents

LEMMA MovesAreBehind ==
    ASSUME NEW f1, NEW t1, NEW f2, NEW t2, NEW kind, kind # "code_rejected",
           <<f1, kind, t1>> \in LegalMoves \cup DraftMoves,
           <<f2, kind, t2>> \in LegalMoves \cup DraftMoves
    PROVE  Rank(f2) < Rank(t1)
BY Ranks DEF LegalMoves, DraftMoves

\* Every row of the log is a legal move, but for a draft's conversion at its head;
\* none leads beyond where the pocket is; but for a rejected code no kind of move
\* is made twice, and the money is decided on once.
LogIsLegal ==
    \A i \in 1..Len(events) : Legal(events[i]) \/ (i = 1 /\ events[i] = Conversion)

LogIsBehind == \A i \in 1..Len(events) : Rank(events[i].to) <= Rank(pocket.state)

MovesAreMadeOnce ==
    \A i, j \in 1..Len(events) :
        events[i].kind = events[j].kind /\ events[i].kind # "code_rejected" => i = j

MoneyIsDecidedOnce ==
    \A i, j \in 1..Len(events) :
        events[i].kind \in MoneyEvents /\ events[j].kind \in MoneyEvents => i = j

History == LogIsLegal /\ LogIsBehind /\ MovesAreMadeOnce /\ MoneyIsDecidedOnce

\* Every step keeps this.
LEMMA HistoryStep == TypeOK /\ History /\ [Next]_vars => History'
<1> SUFFICES ASSUME TypeOK, History, [Next]_vars PROVE History'
    OBVIOUS
<1>0. LogIsLegal /\ LogIsBehind /\ MovesAreMadeOnce /\ MoneyIsDecidedOnce
  BY DEF History
<1>1. ASSUME NEW row \in EventRows, Chained(row) PROVE History'
  <2>1. /\ Len(events') = Len(events) + 1 /\ Len(events) \in Nat
        /\ events'[Len(events) + 1] = row
        /\ \A i \in 1..Len(events) : events'[i] = events[i]
    BY <1>1, LogGrows DEF Chained
  <2>2. 1..Len(events') = (1..Len(events)) \cup {Len(events) + 1} BY <2>1
  <2>3. /\ row.from = pocket.state /\ row.to = pocket'.state
        /\ <<row.from, row.kind, row.to>> \in LegalMoves \cup DraftMoves
    BY <1>1 DEF Chained, Legal
  <2>4. /\ Rank(row.from) \in 0..5 /\ Rank(row.to) \in 1..6 /\ Rank(row.from) <= Rank(row.to)
    BY <2>3, MovesLeadOn
  <2>5. ASSUME NEW i \in 1..Len(events)
        PROVE  /\ Rank(events[i].to) \in 0..6 /\ Rank(events[i].to) <= Rank(row.from)
               /\ events[i].kind = row.kind => row.kind = "code_rejected"
               /\ ~(events[i].kind \in MoneyEvents)
    <3>1. Rank(events[i].to) <= Rank(row.from) BY <1>0, <2>3 DEF LogIsBehind
    <3>2. CASE Legal(events[i])
      <4>1. <<events[i].from, events[i].kind, events[i].to>> \in LegalMoves \cup DraftMoves
        BY <3>2 DEF Legal
      <4>2. Rank(events[i].to) \in 1..6 BY <4>1, MovesLeadOn
      <4>3. ASSUME events[i].kind = row.kind, row.kind # "code_rejected" PROVE FALSE
        <5>1. Rank(row.from) < Rank(events[i].to) BY <2>3, <4>1, <4>3, MovesAreBehind
        <5> QED BY <2>4, <3>1, <4>2, <5>1
      <4>4. events[i].kind \in MoneyEvents => Rank(events[i].to) = 6 BY <4>1, MovesLeadOn
      <4> QED BY <2>4, <3>1, <4>2, <4>3, <4>4
    <3>3. CASE events[i] = Conversion
      <4>1. events[i].to = "DRAFT" /\ events[i].kind = "converted_to_brokered"
        BY <3>3 DEF Conversion
      <4>2. row.kind # "converted_to_brokered" BY <2>3 DEF LegalMoves, DraftMoves
      <4>3. events[i].kind \notin MoneyEvents
        BY <4>1 DEF MoneyEvents, PayoutEvents, RefundEvents
      <4> QED BY <3>1, <4>1, <4>2, <4>3, Ranks
    <3> QED BY <1>0, <3>2, <3>3 DEF LogIsLegal
  <2>6. LogIsLegal'
    <3>1. Legal(row) BY <1>1 DEF Chained
    <3> QED BY <1>0, <2>1, <2>2, <3>1 DEF LogIsLegal, Legal
  <2>7. LogIsBehind'
    <3>1. ASSUME NEW i \in 1..Len(events) PROVE Rank(events'[i].to) <= Rank(pocket'.state)
      BY <2>1, <2>3, <2>4, <2>5
    <3>2. Rank(events'[Len(events) + 1].to) <= Rank(pocket'.state) BY <2>1, <2>3, <2>4
    <3> QED BY <2>2, <3>1, <3>2 DEF LogIsBehind
  <2>8. MovesAreMadeOnce'
    BY <1>0, <2>1, <2>2, <2>5 DEF MovesAreMadeOnce
  <2>9. MoneyIsDecidedOnce'
    BY <1>0, <2>1, <2>2, <2>5 DEF MoneyIsDecidedOnce
  <2> QED BY <2>6, <2>7, <2>8, <2>9 DEF History
<1>2. CASE UNCHANGED <<pocket, version, events>>
  BY <1>0, <1>2 DEF History, LogIsLegal, LogIsBehind, MovesAreMadeOnce, MoneyIsDecidedOnce, Legal
<1> QED BY <1>1, <1>2, ChainedSteps

\* RunTransition under any interleaving: after the row of a conversion, if there
\* was one, the log holds legal moves only; a payment
\* notified twice funds the pocket once, and one row at most pays out or refunds.
THEOREM HistoryIsSound == Spec => []History
<1>1. Init => History
  <2> SUFFICES ASSUME Init PROVE History
      OBVIOUS
  <2>1. pocket.state = "DRAFT" BY DEF Init
  <2>2. \A i \in 1..Len(events) :
            i = 1 /\ events[i] = Conversion /\ events[i].to = "DRAFT"
    BY DraftLog DEF Conversion
  <2>3. LogIsLegal BY <2>2 DEF LogIsLegal
  <2>4. LogIsBehind BY <2>1, <2>2, Ranks DEF LogIsBehind
  <2>5. MovesAreMadeOnce /\ MoneyIsDecidedOnce
    BY <2>2 DEF MovesAreMadeOnce, MoneyIsDecidedOnce
  <2> QED BY <2>3, <2>4, <2>5 DEF History
<1> QED BY <1>1, HistoryStep, TypeCorrect, PTL DEF Spec

\* insertEventTx is the only statement on pocket_events: rows are added one at a
\* time, each with the next version, and never rewritten.
LogIsAppended ==
    [][\/ UNCHANGED <<version, events>>
       \/ version' = version + 1 /\ \E row \in EventRows : events' = Append(events, row)]_vars

\* No step rewrites a row of the log.
THEOREM LogIsAppendOnly == Spec => LogIsAppended
<1>1. TypeOK /\ [Next]_vars =>
          [\/ UNCHANGED <<version, events>>
           \/ version' = version + 1 /\ \E row \in EventRows : events' = Append(events, row)]_vars
  BY ChainedSteps DEF Chained
<1> QED BY <1>1, TypeCorrect, PTL DEF Spec, LogIsAppended

\* The row a draft's conversion to brokered may have left.
ConversionRows == IF terms.structure = "brokered" THEN 1 ELSE 0

\* The version of a pocket, bounded by how far it has come.
HistoryIsFinite == version <= Rank(pocket.state) + pocket.attempts + ConversionRows

LEMMA FiniteStep == TypeOK /\ Counted /\ HistoryIsFinite /\ [Next]_vars => HistoryIsFinite'
<1> SUFFICES ASSUME TypeOK, Counted, HistoryIsFinite, [Next]_vars PROVE HistoryIsFinite'
    OBVIOUS
<1>0. version \in Nat /\ pocket.attempts \in Nat /\ ConversionRows \in {0, 1}
  BY DEF TypeOK, Snapshots, ConversionRows
<1>1. CASE Complete
  <2>1. /\ pocket.state = "DRAFT" /\ pocket'.state = "CREATED" /\ pocket'.attempts = 0
        /\ version' = version + 1 /\ UNCHANGED ConversionRows
    BY <1>1 DEF Complete, NewPocket, ConversionRows
  <2> QED BY <1>0, <2>1, Ranks DEF Counted, HistoryIsFinite
<1>2. ASSUME pocket.state = "DRAFT", NEW actor \in Actors, CancelDraft(actor)
      PROVE  HistoryIsFinite'
  <2>1. /\ pocket'.state = "CANCELLED" /\ pocket'.attempts = pocket.attempts
        /\ version' = version + 1 /\ UNCHANGED ConversionRows
    BY <1>2 DEF CancelDraft, TypeOK, Snapshots, ConversionRows
  <2> QED BY <1>0, <1>2, <2>1, Ranks DEF HistoryIsFinite
<1>3. ASSUME NEW ev, NEW now \in Times, NEW actor \in Actors, Commits(ev, now, actor)
      PROVE  HistoryIsFinite'
  <2>1. PICK to \in States :
            /\ <<pocket.state, ev, to>> \in LegalMoves
            /\ pocket' = NextSnapshot(terms, pocket, now, ev, to) /\ pocket'.state = to
            /\ version' = version + 1 /\ UNCHANGED ConversionRows
    BY <1>3, CommitRow DEF Commits, ConversionRows
  <2>2. pocket'.attempts = IF ev = "code_rejected" THEN pocket.attempts + 1 ELSE pocket.attempts
    BY <2>1 DEF NextSnapshot, RegisterFailure, TypeOK, Snapshots
  <2>3. /\ Rank(pocket.state) \in 0..5 /\ Rank(to) \in 1..6
        /\ ev # "code_rejected" => Rank(pocket.state) < Rank(to)
        /\ ev = "code_rejected" => pocket.state = to
    BY <2>1, MovesLeadOn
  <2> QED BY <1>0, <2>1, <2>2, <2>3 DEF HistoryIsFinite
<1>4. CASE Quiet BY <1>4 DEF Quiet, logVars, HistoryIsFinite, ConversionRows
<1> QED BY <1>1, <1>2, <1>3, <1>4, LogSteps

\* A pocket's whole history takes at most six moves beside its rejected codes and
\* the conversion of its draft: no party, however it interleaves its requests, can
\* keep one going for ever.
THEOREM HistoriesAreFinite == Spec => [](version <= 6 + MaxAttempts + ConversionRows)
<1>1. Init => HistoryIsFinite
  <2> SUFFICES ASSUME Init PROVE HistoryIsFinite
      OBVIOUS
  <2>1. Rank(pocket.state) = 0 /\ pocket.attempts = 0 BY Ranks DEF Init
  <2> QED BY <2>1, DraftLog DEF HistoryIsFinite, ConversionRows
<1>2. TypeOK /\ Counted /\ HistoryIsFinite => version <= 6 + MaxAttempts + ConversionRows
  <2> SUFFICES ASSUME TypeOK, Counted, HistoryIsFinite
               PROVE  version <= 6 + MaxAttempts + ConversionRows
      OBVIOUS
  <2>1. Rank(pocket.state) \in 0..6 /\ ConversionRows \in {0, 1}
    BY Ranks DEF TypeOK, Snapshots, States, LiveStates, Terminal, ConversionRows
  <2> QED BY <2>1, PocketAssumption DEF TypeOK, Snapshots, Counted, HistoryIsFinite
<1> QED BY <1>1, <1>2, FiniteStep, CodesInStep, TypeCorrect, PTL DEF Spec

=============================================================================
