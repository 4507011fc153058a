------------------------- MODULE EscrowSystemProofs --------------------------
(***************************************************************************)
(* One pocket from its draft to the provider's ledger: what Lifecycle and  *)
(* Disbursement promise each of its part holds of the whole, and the legs  *)
(* they share tie the two promises together.                               *)
(***************************************************************************)
EXTENDS EscrowSystem, LifecycleProofs

\* The theorems about Disbursement, for the rows of this pocket.
DP == INSTANCE DisbursementProofs WITH Legs <- Rows, BatchOf <- RowBatch, CanQuery <- FALSE

LEMMA RowsAreLegs == DP!DisbursementAssumption /\ DP!Batches = 1..3
BY DEF DP!DisbursementAssumption, DP!Batches, Rows, RowBatch

-----------------------------------------------------------------------------
(* The pocket's part. *)

\* The pocket's part of a step is a step of Lifecycle,
LEMMA PocketSteps == [SystemNext]_systemVars => [Next]_vars
BY DEF SystemNext, PocketStep, Next, HandlerStep, systemVars

\* and leaves the terms and the crash-free mode alone.
LEMMA PocketKeeps == [Next]_vars => UNCHANGED <<terms, stable>>
BY DEF vars, Next, Complete, BeginCancel, BeginFunding, BeginEnterCode, BeginReportIssue, Begin,
  CommitCancel, CommitEvent, SettleAtOnce, AnswerRefused, CancelDraft, Apply, Rollback,
  ConfirmDispatchFailure, OpenFrozenDispute, Concede, ForceRefund, ForcePayout, Handle,
  AttestNonReceipt, RunEffect, LoseEffect, SweepRead, Sweep, SweepPassesBy, Tick, Crash, dbVars

\* Whatever becomes of its money, a pocket of the system is a pocket.
THEOREM SystemIsLifecycle == SystemSpec => Spec
<1>1. SystemInit => Init BY DEF SystemInit
<1> QED BY <1>1, PocketSteps, PTL DEF SystemSpec, Spec

-----------------------------------------------------------------------------
(* The legs the two parts share. *)

\* The rows a batch is made of, as legs.
LegsIn(b) == {LegOfRow(l) : l \in {m \in Rows : RowBatch[m] = b}}

LEMMA LegsByBatch ==
    /\ LegsIn(1) = {LegOfRow(1)} /\ LegsIn(2) = {LegOfRow(2)}
    /\ LegsIn(3) = {LegOfRow(3), LegOfRow(4)}
<1>1. {m \in Rows : RowBatch[m] = 1} = {1} BY DEF Rows, RowBatch
<1>2. {m \in Rows : RowBatch[m] = 2} = {2} BY DEF Rows, RowBatch
<1>3. {m \in Rows : RowBatch[m] = 3} = {3, 4} BY DEF Rows, RowBatch
<1> QED BY <1>1, <1>2, <1>3 DEF LegsIn

\* The direction and the roles of a set of legs tell its batch.
LEMMA LegsAreDifferent ==
    /\ LegOfRow(1) = [direction |-> "refund", role |-> "buyer", amount |-> BuyerTotal(terms)]
    /\ LegOfRow(2) = [direction |-> "payout", role |-> "vendor", amount |-> terms.amount]
    /\ LegOfRow(3) = LegOfRow(2)
    /\ LegOfRow(4) = [direction |-> "payout", role |-> "broker", amount |-> terms.commission]
BY DEF LegOfRow, Refund, Broker

LEMMA BatchIsKnown == \A b \in 1..3 : BatchOfLegs(LegsIn(b)) = b
<1>1. \A a, b \in 1..3 : LegsIn(a) = LegsIn(b) => a = b
  <2>1. LegOfRow(1) # LegOfRow(2) /\ LegOfRow(1) # LegOfRow(4) /\ LegOfRow(2) # LegOfRow(4)
    BY LegsAreDifferent
  <2>2. LegOfRow(3) = LegOfRow(2) BY LegsAreDifferent
  <2>3. LegsIn(1) # LegsIn(2) /\ LegsIn(1) # LegsIn(3) /\ LegsIn(2) # LegsIn(3)
    BY <2>1, <2>2, LegsByBatch
  <2>4. \A b \in 1..3 : b = 1 \/ b = 2 \/ b = 3 OBVIOUS
  <2> QED BY <2>3, <2>4
<1> QED BY <1>1 DEF BatchOfLegs, LegsIn

\* What a pocket owes is one batch, by its state, or nothing yet.
LEMMA LegsAreABatch ==
    ASSUME TypeOK, CustodyConserved, legs # {}
    PROVE  \E b \in 1..3 : /\ legs = LegsIn(b)
                           /\ pocket.state = IF b = 1 THEN "REFUNDED" ELSE "SETTLED"
<1>1. CASE pocket.state = "REFUNDED"
  <2>1. legs = {LegOfRow(1)} BY <1>1, LegsAreDifferent DEF CustodyConserved, BuyerTotal
  <2> QED BY <1>1, <2>1, LegsByBatch
<1>2. CASE pocket.state = "SETTLED"
  <2>1. \A l \in legs : l = LegOfRow(2) \/ l = LegOfRow(4)
    <3> SUFFICES ASSUME NEW l \in legs PROVE l = LegOfRow(2) \/ l = LegOfRow(4) OBVIOUS
    <3>1. l \in Legs BY DEF TypeOK
    <3>2. l = [direction |-> l.direction, role |-> l.role, amount |-> l.amount]
      BY <3>1 DEF Legs
    <3>3. /\ l.direction = "payout" /\ l.role \in {"vendor", "broker"}
          /\ l.amount = IF l.role = "vendor" THEN terms.amount ELSE terms.commission
      BY <1>2 DEF CustodyConserved
    <3> QED BY <3>2, <3>3, LegsAreDifferent
  <2>2. LegOfRow(2) \in legs
    <3>1. PICK l \in legs : l.role = "vendor" BY <1>2 DEF CustodyConserved
    <3>2. LegOfRow(4).role = "broker" BY LegsAreDifferent
    <3> QED BY <2>1, <3>1, <3>2
  <2>3. CASE LegOfRow(4) \in legs
    <3>1. legs = LegsIn(3) BY <2>1, <2>2, <2>3, LegsByBatch, LegsAreDifferent
    <3> QED BY <1>2, <3>1
  <2>4. CASE LegOfRow(4) \notin legs
    <3>1. legs = LegsIn(2) BY <2>1, <2>2, <2>4, LegsByBatch
    <3> QED BY <1>2, <3>1
  <2> QED BY <2>3, <2>4
<1>3. pocket.state \in {"REFUNDED", "SETTLED"} BY DEF CustodyConserved
<1> QED BY <1>1, <1>2, <1>3

\* The same in the next state.
Owes ==
    TypeOK /\ CustodyConserved /\ legs # {} =>
        \E b \in 1..3 : /\ legs = LegsIn(b)
                        /\ pocket.state = IF b = 1 THEN "REFUNDED" ELSE "SETTLED"
                        /\ BatchOfLegs(legs) = b

LEMMA OwesNow == Owes
BY LegsAreABatch, BatchIsKnown DEF Owes

LEMMA OwesThen == Owes'
BY OwesNow, PTL

\* The legs are inserted once: a pocket that owes them is closed.
LEMMA LegsAreInsertedOnce ==
    ASSUME TypeOK, CustodyConserved, [Next]_vars, legs' # legs
    PROVE  legs = {}
<1> SUFFICES ASSUME legs # {} PROVE FALSE OBVIOUS
<1>1. pocket.state \in Terminal BY OwesNow DEF Owes, Terminal
<1> QED BY <1>1, ClosedStays

-----------------------------------------------------------------------------
(* The money's part. *)

\* Module Disbursement, with its theorems and without.
LEMMA SameParts ==
    /\ D!Init => DP!Init
    /\ \A b : D!RecordBatch(b) => DP!RecordBatch(b)
    /\ D!Crash => DP!Crash
    /\ \A w : D!WorkerStep(w) => DP!WorkerStep(w)
    /\ \A l : D!ProviderStep(l) => DP!ProviderStep(l)
    /\ \A n : D!NoticeStep(n) => DP!NoticeStep(n)
<1>1. /\ D!Init => DP!Init
      /\ \A b : D!RecordBatch(b) => DP!RecordBatch(b)
      /\ D!Crash => DP!Crash
  BY DEF D!Init, D!RecordBatch, D!Crash, D!IdleWorker, D!Batches, D!Workers, D!Sweeper, D!hooks, D!Places,
     DP!Init, DP!RecordBatch, DP!Crash, DP!IdleWorker, DP!Batches, DP!Workers, DP!Sweeper, DP!hooks, DP!Places
<1>2. \A w : D!WorkerStep(w) => DP!WorkerStep(w)
  BY DEF D!WorkerStep, DP!WorkerStep, D!List, D!Claim, D!Finish, D!Submit, D!NotSubmitted, D!TokenRefused, D!Timeout, D!Act, D!StoreFails, D!Tick, D!Query, D!Resolve, D!Answer, D!GoTo, D!Oldest, D!Sweeper, D!Batches, D!Workers, D!hooks, D!IdleWorker, D!ConfirmSettlement, D!FailSettlementLeg, D!ReleaseSettlementLeg, D!OnRecord,
     DP!List, DP!Claim, DP!Finish, DP!Submit, DP!NotSubmitted, DP!TokenRefused, DP!Timeout, DP!Act, DP!StoreFails, DP!Tick, DP!Query, DP!Resolve, DP!Answer, DP!GoTo, DP!Oldest, DP!Sweeper, DP!Batches, DP!Workers, DP!hooks, DP!IdleWorker, DP!ConfirmSettlement, DP!FailSettlementLeg, DP!ReleaseSettlementLeg, DP!OnRecord
<1>3. \A l : D!ProviderStep(l) => DP!ProviderStep(l)
  BY DEF D!ProviderStep, DP!ProviderStep, D!Accept, D!Reject, D!LoseRequest, D!Execute, D!Return, D!Shift, D!Reply, D!Notify, D!Answer, D!Workers, D!Sweeper, D!Batches, D!hooks,
     DP!Accept, DP!Reject, DP!LoseRequest, DP!Execute, DP!Return, DP!Shift, DP!Reply, DP!Notify, DP!Answer, DP!Workers, DP!Sweeper, DP!Batches, DP!hooks
<1>4. \A n : D!NoticeStep(n) => DP!NoticeStep(n)
  BY DEF D!NoticeStep, DP!NoticeStep, D!ReceiveNotice, D!ApplyNotice, D!MarkWebhookProcessed, D!ConfirmSettlement, D!FailSettlementLeg,
     DP!ReceiveNotice, DP!ApplyNotice, DP!MarkWebhookProcessed, DP!ConfirmSettlement, DP!FailSettlementLeg
<1> QED BY <1>1, <1>2, <1>3, <1>4

\* What is known of the pocket in every state.
PocketIsSound == TypeOK /\ CustodyConserved

\* The rows of a batch are recorded, and they are the legs, or there are none.
Recorded ==
    LET rows == {l \in Rows : status[l] # "none"}
    IN  \/ legs = {} /\ rows = {}
        \/ \E b \in 1..3 : legs = LegsIn(b) /\ rows = {l \in Rows : RowBatch[l] = b}

\* A step of the money inserts no row.
LEMMA MoneyAdvances ==
    ASSUME DP!TypeOK, MoneyStep \/ D!Crash \/ UNCHANGED <<moneyVars, stable>>
    PROVE  DP!RowsAdvance
<1>1. \/ \E w \in DP!Workers : DP!WorkerStep(w)
      \/ \E l \in Rows : DP!ProviderStep(l)
      \/ \E n \in DP!Notices : DP!NoticeStep(n)
      \/ DP!Crash \/ UNCHANGED DP!vars
  <2>1. D!Workers = DP!Workers /\ D!Notices = DP!Notices
    BY DEF D!Workers, DP!Workers, D!Batches, DP!Batches, D!Sweeper, DP!Sweeper, D!Notices,
       DP!Notices
  <2> QED BY <2>1, SameParts DEF MoneyStep, moneyVars, DP!vars
<1> QED BY <1>1, RowsAreLegs, DP!AdvanceStep

\* A step of the pocket that inserts legs is the one that records their batch.
LEMMA LegsAreRecorded ==
    ASSUME PocketIsSound, PocketIsSound', [Next]_vars, legs' # legs, D!RecordBatch(BatchOfLegs(legs'))
    PROVE  \E b \in DP!Batches : DP!RecordBatch(b) /\ legs' = LegsIn(b)'
<1>1. legs = {} /\ terms' = terms BY LegsAreInsertedOnce, PocketKeeps DEF PocketIsSound
<1>2. PICK b \in 1..3 : legs' = LegsIn(b)' BY <1>1, OwesThen DEF Owes, PocketIsSound
<1>3. LegsIn(b)' = LegsIn(b) BY <1>1 DEF LegsIn, LegOfRow, BuyerTotal
<1>4. BatchOfLegs(legs') = b BY <1>2, <1>3, BatchIsKnown
<1> QED BY <1>2, <1>4, SameParts, RowsAreLegs

\* Every step of the system is a step of Disbursement, or leaves it alone.
LEMMA DisbursementSteps ==
    ASSUME PocketIsSound, PocketIsSound', [SystemNext]_systemVars
    PROVE  [DP!Next]_(DP!vars)
<1>1. [Next]_vars /\ UNCHANGED stable BY PocketSteps, PocketKeeps
<1>2. CASE PocketStep /\ RecordLegs
  <2>1. CASE legs' = legs BY <1>1, <1>2, <2>1 DEF RecordLegs, moneyVars, DP!vars
  <2>2. CASE legs' # legs
    <3>1. \E b \in DP!Batches : DP!RecordBatch(b)
      BY <1>1, <1>2, <2>2, LegsAreRecorded DEF RecordLegs
    <3> QED BY <3>1 DEF DP!Next
  <2> QED BY <2>1, <2>2
<1>3. CASE MoneyStep
  <2>1. D!Workers = DP!Workers /\ D!Notices = DP!Notices
    BY DEF D!Workers, DP!Workers, D!Batches, DP!Batches, D!Sweeper, DP!Sweeper, D!Notices,
       DP!Notices
  <2> QED BY <1>3, <2>1, SameParts DEF MoneyStep, DP!Next
<1>4. CASE Crash /\ D!Crash BY <1>4, SameParts DEF DP!Next
<1>5. CASE UNCHANGED systemVars BY <1>1, <1>5 DEF systemVars, moneyVars, DP!vars
<1> QED BY <1>2, <1>3, <1>4, <1>5 DEF SystemNext

-----------------------------------------------------------------------------
(* The two parts together. *)

LEMMA RecordedStep ==
    ASSUME PocketIsSound, PocketIsSound', DP!TypeOK, Recorded, [SystemNext]_systemVars
    PROVE  Recorded'
<1>1. [Next]_vars /\ terms' = terms BY PocketSteps, PocketKeeps
<1>2. \A b : LegsIn(b)' = LegsIn(b) BY <1>1 DEF LegsIn, LegOfRow, BuyerTotal
<1>3. CASE legs' # legs
  <2>1. D!RecordBatch(BatchOfLegs(legs'))
    <3>1. ~(MoneyStep /\ UNCHANGED vars) /\ ~(Crash /\ D!Crash) /\ ~UNCHANGED systemVars
      BY <1>3 DEF vars, systemVars, Crash, dbVars
    <3> QED BY <1>3, <3>1 DEF SystemNext, RecordLegs
  <2>2. PICK b \in DP!Batches : DP!RecordBatch(b) /\ legs' = LegsIn(b)'
    BY <1>1, <1>3, <2>1, LegsAreRecorded
  <2>3. b \in 1..3 BY <2>2, RowsAreLegs
  <2>4. legs = {} BY <1>1, <1>3, LegsAreInsertedOnce DEF PocketIsSound
  <2>5. LegsIn(1) # {} /\ LegsIn(2) # {} /\ LegsIn(3) # {} BY LegsByBatch
  <2>6. \A l \in Rows : status[l] = "none"
    BY <2>3, <2>4, <2>5 DEF Recorded
  <2>7. \A l \in Rows : status'[l] = IF RowBatch[l] = b THEN "pending" ELSE status[l]
    BY <2>2 DEF DP!RecordBatch
  <2>8. {l \in Rows : status'[l] # "none"} = {l \in Rows : RowBatch[l] = b}
    BY <2>6, <2>7
  <2> QED BY <2>2, <2>3, <2>8 DEF Recorded
<1>4. CASE legs' = legs
  <2>1. MoneyStep \/ D!Crash \/ UNCHANGED <<moneyVars, stable>>
    BY <1>1, <1>4, PocketKeeps DEF SystemNext, RecordLegs, systemVars
  <2>2. DP!RowsAdvance BY <2>1, MoneyAdvances
  <2>3. \A l \in Rows : status'[l] # "none" <=> status[l] # "none"
    BY <2>2 DEF DP!RowsAdvance
  <2>4. {l \in Rows : status'[l] # "none"} = {l \in Rows : status[l] # "none"} BY <2>3
  <2> QED BY <1>2, <1>4, <2>4 DEF Recorded
<1> QED BY <1>3, <1>4

LEMMA RecordedInit == SystemInit => Recorded
BY DEF SystemInit, Init, D!Init, Recorded

\* The rows tell the legs, so that much is RowsAreTheLegs.
LEMMA RecordedRows == Recorded => RowsAreTheLegs
<1> SUFFICES ASSUME Recorded PROVE RowsAreTheLegs
    OBVIOUS
<1>1. CASE legs = {} /\ {l \in Rows : status[l] # "none"} = {}
  BY <1>1 DEF RowsAreTheLegs
<1>2. ASSUME NEW b \in 1..3, legs = LegsIn(b),
             {l \in Rows : status[l] # "none"} = {l \in Rows : RowBatch[l] = b}
      PROVE  RowsAreTheLegs
  <2>1. legs # {} BY <1>2, LegsByBatch
  <2>2. BatchOfLegs(legs) = b BY <1>2, BatchIsKnown
  <2>3. D!LegsOfBatch(b) = {l \in Rows : RowBatch[l] = b} BY DEF D!LegsOfBatch
  <2> QED BY <1>2, <2>1, <2>2, <2>3 DEF RowsAreTheLegs
<1> QED BY <1>1, <1>2 DEF Recorded

\* The pocket of the system is sound.
LEMMA PocketHolds == SystemSpec => []PocketIsSound
BY SystemIsLifecycle, TypeCorrect, MoneyIsConserved, PTL DEF PocketIsSound

\* Wherever its legs come from, their money is moved as Disbursement moves it.
THEOREM SystemIsDisbursement == SystemSpec => DP!Spec
<1>1. SystemInit => DP!Init BY SameParts DEF SystemInit
<1>2. PocketIsSound /\ PocketIsSound' /\ [SystemNext]_systemVars => [DP!Next]_(DP!vars)
  BY DisbursementSteps
<1> QED BY <1>1, <1>2, PocketHolds, PTL DEF SystemSpec, DP!Spec

LEMMA RecordedHolds == SystemSpec => []Recorded
<1>1. PocketIsSound /\ PocketIsSound' /\ DP!TypeOK /\ Recorded /\ [SystemNext]_systemVars
          => Recorded'
  BY RecordedStep
<1>2. DP!Spec => []DP!TypeOK BY RowsAreLegs, DP!TypeCorrect
<1> QED BY <1>1, <1>2, RecordedInit, PocketHolds, SystemIsDisbursement, PTL DEF SystemSpec

\* The rows of settlements are the legs the pocket's closing transition committed
\* to, all of them and no other.
THEOREM RowsFollowLegs == SystemSpec => []RowsAreTheLegs
BY RecordedHolds, RecordedRows, PTL

-----------------------------------------------------------------------------
(* What the two promises come to. *)

\* All that is known of both parts.
SystemIsSound ==
    /\ PocketIsSound /\ Recorded
    /\ DP!TypeOK /\ DP!Unrecorded /\ DP!AtMostOneSubmission

LEMMA SystemHolds == SystemSpec => []SystemIsSound
<1>1. DP!Spec => []DP!TypeOK BY RowsAreLegs, DP!TypeCorrect
<1>2. DP!Spec => [](DP!ConfirmedOnRecord /\ DP!Unrecorded) BY RowsAreLegs, DP!ConfirmedIsOnRecord
<1>3. DP!Spec => []DP!AtMostOneSubmission BY RowsAreLegs, DP!AtMostOnce
<1> QED BY <1>1, <1>2, <1>3, SystemIsDisbursement, PocketHolds, RecordedHolds, PTL
        DEF SystemIsSound

\* What the provider has of a row was inserted for it: it is a leg, of the side
\* that the state names.
LEMMA SubmittedIsOwed ==
    ASSUME SystemIsSound, NEW l \in Rows, NEW p \in D!Places, provider[l][p] > 0
    PROVE  \E b \in 1..3 :
               /\ legs = LegsIn(b) /\ RowBatch[l] = b
               /\ {m \in Rows : status[m] # "none"} = {m \in Rows : RowBatch[m] = b}
               /\ pocket.state = IF b = 1 THEN "REFUNDED" ELSE "SETTLED"
<1>1. p \in DP!Places BY DEF D!Places, DP!Places
<1>2. status[l] # "none" BY <1>1 DEF SystemIsSound, DP!Unrecorded
<1>3. PICK b \in 1..3 :
          /\ legs = LegsIn(b)
          /\ {m \in Rows : status[m] # "none"} = {m \in Rows : RowBatch[m] = b}
  BY <1>2 DEF SystemIsSound, Recorded
<1>4. RowBatch[l] = b BY <1>2, <1>3
<1>5. legs # {} BY <1>3, LegsByBatch
<1>6. PICK c \in 1..3 : /\ legs = LegsIn(c) /\ BatchOfLegs(legs) = c
                        /\ pocket.state = IF c = 1 THEN "REFUNDED" ELSE "SETTLED"
  BY <1>5, OwesNow DEF SystemIsSound, PocketIsSound, Owes
<1>7. b = c BY <1>3, <1>6, BatchIsKnown
<1> QED BY <1>3, <1>4, <1>6, <1>7

\* A row that was ever submitted is in some place.
LEMMA SubmittedIsSomewhere ==
    ASSUME DP!TypeOK, NEW l \in Rows, D!Submissions(l) > 0
    PROVE  \E p \in D!Places : provider[l][p] > 0
<1>1. \A p \in D!Places : provider[l][p] \in Nat BY DEF DP!TypeOK, D!Places, DP!Places
<1> QED BY <1>1 DEF D!Submissions, D!OnRecord, D!Places

\* Nothing is paid while the pocket is open, and then each share of the decided
\* side once, whatever is lost, repeated, restarted or late.
THEOREM DecidedIsPaid == SystemSpec => []PaidAsDecided
<1>1. SystemIsSound => PaidAsDecided
  <2> SUFFICES ASSUME SystemIsSound, NEW l \in Rows, D!Submissions(l) > 0
               PROVE  /\ D!Submissions(l) = 1
                      /\ LegOfRow(l) \in legs
                      /\ pocket.state = IF l = Refund THEN "REFUNDED" ELSE "SETTLED"
      BY DEF PaidAsDecided
  <2>1. PICK p \in D!Places : provider[l][p] > 0
    BY SubmittedIsSomewhere DEF SystemIsSound
  <2>2. PICK b \in 1..3 : /\ legs = LegsIn(b) /\ RowBatch[l] = b
                          /\ pocket.state = IF b = 1 THEN "REFUNDED" ELSE "SETTLED"
    BY <2>1, SubmittedIsOwed
  <2>3. LegOfRow(l) \in legs BY <2>2 DEF LegsIn
  <2>4. b = 1 <=> l = Refund BY <2>2 DEF RowBatch, Rows, Refund
  <2>5. D!Submissions(l) \in Int /\ D!Submissions(l) <= 1
    <3>1. \A p1 \in D!Places : provider[l][p1] \in Nat
      BY DEF SystemIsSound, DP!TypeOK, D!Places, DP!Places
    <3>2. D!Submissions(l) \in Int BY <3>1 DEF D!Submissions, D!OnRecord, D!Places
    <3>3. D!Submissions(l) = DP!Submissions(l)
      BY DEF D!Submissions, DP!Submissions, D!OnRecord, DP!OnRecord
    <3> QED BY <3>2, <3>3 DEF SystemIsSound, DP!AtMostOneSubmission
  <2> QED BY <2>2, <2>3, <2>4, <2>5
<1> QED BY <1>1, SystemHolds, PTL

\* No more ever leaves the provider than the buyer put in.
THEOREM NeverPaidTooMuch == SystemSpec => []NeverOverpaid
<1>1. SystemIsSound => NeverOverpaid
  <2> SUFFICES ASSUME SystemIsSound PROVE NeverOverpaid
      OBVIOUS
  <2> DEFINE moved(l) == provider[l]["moved"]
  <2>1. /\ terms.amount \in Nat /\ terms.commission \in Nat /\ terms.premium \in Nat
        /\ BuyerTotal(terms) = terms.amount + terms.commission + terms.premium
    BY LifecycleAssumption DEF SystemIsSound, PocketIsSound, TypeOK, Terms, BuyerTotal
  <2>2. \A l \in Rows : moved(l) \in {0, 1}
    <3> SUFFICES ASSUME NEW l \in Rows PROVE moved(l) \in {0, 1} OBVIOUS
    <3>1. /\ provider[l]["wire"] \in Nat /\ provider[l]["lost"] \in Nat
          /\ provider[l]["open"] \in Nat /\ provider[l]["void"] \in Nat
          /\ provider[l]["moved"] \in Nat
      BY DEF SystemIsSound, DP!TypeOK, DP!Places
    <3>2. DP!Submissions(l) <= 1 BY DEF SystemIsSound, DP!AtMostOneSubmission
    <3>3. provider[l]["moved"] <= 1 BY <3>1, <3>2 DEF DP!Submissions, DP!OnRecord
    <3> QED BY <3>1, <3>3
  <2>3. \A l, m \in Rows : moved(l) = 1 /\ moved(m) = 1 => RowBatch[l] = RowBatch[m]
    <3> SUFFICES ASSUME NEW l \in Rows, NEW m \in Rows, moved(l) = 1, moved(m) = 1
                 PROVE  RowBatch[l] = RowBatch[m]
        OBVIOUS
    <3>1. provider[l]["moved"] > 0 /\ provider[m]["moved"] > 0 /\ "moved" \in D!Places
      BY DEF D!Places
    <3>2. PICK b \in 1..3 :
              /\ RowBatch[l] = b
              /\ {r \in Rows : status[r] # "none"} = {r \in Rows : RowBatch[r] = b}
      BY <3>1, SubmittedIsOwed
    <3>3. PICK c \in 1..3 :
              /\ RowBatch[m] = c
              /\ {r \in Rows : status[r] # "none"} = {r \in Rows : RowBatch[r] = c}
      BY <3>1, SubmittedIsOwed
    <3> QED BY <3>2, <3>3
  <2>4. /\ PaidOut(1) = moved(1) * BuyerTotal(terms)
        /\ PaidOut(2) = moved(2) * terms.amount /\ PaidOut(3) = moved(3) * terms.amount
        /\ PaidOut(4) = moved(4) * terms.commission
    BY LegsAreDifferent DEF PaidOut
  <2>5. 1 \in Rows /\ 2 \in Rows /\ 3 \in Rows /\ 4 \in Rows
        /\ RowBatch[1] = 1 /\ RowBatch[2] = 2 /\ RowBatch[3] = 3 /\ RowBatch[4] = 3
    BY DEF Rows, RowBatch
  <2>6. \A k : (k \in {0, 1}) => \A n \in Nat : k * n = IF k = 1 THEN n ELSE 0
    OBVIOUS
  <2> HIDE DEF moved
  <2>7. /\ PaidOut(1) = IF moved(1) = 1 THEN BuyerTotal(terms) ELSE 0
        /\ PaidOut(2) = IF moved(2) = 1 THEN terms.amount ELSE 0
        /\ PaidOut(3) = IF moved(3) = 1 THEN terms.amount ELSE 0
        /\ PaidOut(4) = IF moved(4) = 1 THEN terms.commission ELSE 0
    <3>1. BuyerTotal(terms) \in Nat BY <2>1
    <3> QED BY <2>1, <2>2, <2>4, <2>5, <2>6, <3>1
  <2>8. /\ moved(1) = 1 => moved(2) # 1 /\ moved(3) # 1 /\ moved(4) # 1
        /\ moved(2) = 1 => moved(3) # 1 /\ moved(4) # 1
    BY <2>3, <2>5
  <2> QED BY <2>1, <2>7, <2>8 DEF NeverOverpaid
<1> QED BY <1>1, SystemHolds, PTL

\* Once the provider was asked to pay, nobody changes what is owed.
THEOREM WhatIsOwedStays == SystemSpec => OwedIsFinal
<1>1. SystemIsSound /\ [SystemNext]_systemVars =>
          [(\E l \in Rows : D!Submissions(l) > 0) =>
               UNCHANGED <<terms, pocket, events, legs>>]_systemVars
  <2> SUFFICES ASSUME SystemIsSound, [SystemNext]_systemVars,
                      NEW l \in Rows, D!Submissions(l) > 0
               PROVE  UNCHANGED <<terms, pocket, events, legs>>
      OBVIOUS
  <2>1. PICK p \in D!Places : provider[l][p] > 0
    BY SubmittedIsSomewhere DEF SystemIsSound
  <2>2. pocket.state \in {"REFUNDED", "SETTLED"} BY <2>1, SubmittedIsOwed
  <2>3. [Next]_vars BY PocketSteps
  <2> QED BY <2>2, <2>3, ClosedStays, PocketKeeps DEF Terminal
<1> QED BY <1>1, SystemHolds, PTL DEF SystemSpec, OwedIsFinal

\* The system keeps both promises: custody moves as module Escrow says, and the
\* money of every row as module Payment says.
THEOREM SystemKeepsItsPromises == SystemSpec => EscrowSpec /\ DP!PaymentSpec
<1>1. DP!Spec => DP!PaymentSpec BY RowsAreLegs, DP!ImplementsPayment
<1> QED BY <1>1, SystemIsLifecycle, ImplementsEscrow, SystemIsDisbursement

=============================================================================
