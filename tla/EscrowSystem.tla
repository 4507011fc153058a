---------------------------- MODULE EscrowSystem -----------------------------
(***************************************************************************)
(* One pocket from its draft to the provider's ledger: Lifecycle decides   *)
(* who is owed, Disbursement pays.  They meet in the transaction that      *)
(* closes the pocket, which inserts the legs, and in the process they      *)
(* share: a crash is one for both, and the sweeper has one goroutine.  The *)
(* legs that a sweep inserts are paid beside it here, inside drainRule in  *)
(* the code: more interleavings than the code has, and none less.          *)
(***************************************************************************)
EXTENDS Lifecycle

VARIABLES status, worker, provider, sent, checked, applied, processed

moneyVars == <<status, worker, provider, sent, checked, applied, processed>>
systemVars == <<vars, moneyVars>>

(***************************************************************************)
(* The rows a pocket may ever insert into settlements, each set of them in *)
(* one transition: the refund, the vendor's share alone, or the vendor's   *)
(* and the broker's.                                                       *)
(***************************************************************************)
Rows == 1..4
RowBatch == [l \in Rows |-> IF l = 4 THEN 3 ELSE l]
Refund == 1
Broker == 4

LegOfRow(l) ==
    IF l = Refund
    THEN [direction |-> "refund", role |-> "buyer", amount |-> BuyerTotal(terms)]
    ELSE IF l = Broker
    THEN [direction |-> "payout", role |-> "broker", amount |-> terms.commission]
    ELSE [direction |-> "payout", role |-> "vendor", amount |-> terms.amount]

\* The batch that a set of legs is inserted as.
BatchOfLegs(ls) == CHOOSE b \in 1..3 : ls = {LegOfRow(l) : l \in {m \in Rows : RowBatch[m] = b}}

\* No gateway of the repository answers status queries.
D == INSTANCE Disbursement WITH Legs <- Rows, BatchOf <- RowBatch, CanQuery <- FALSE

SystemInit == Init /\ D!Init

\* A step of the pocket's row or of a handler, in memory or in a transaction.
PocketStep ==
    \/ Complete
    \/ \E r \in Requests :
         \/ BeginCancel(r) \/ BeginFunding(r) \/ BeginEnterCode(r) \/ BeginReportIssue(r)
         \/ HandlerStep(r)
    \/ ConfirmDispatchFailure \/ OpenFrozenDispute \/ Concede \/ ForceRefund \/ ForcePayout
    \/ AttestNonReceipt
    \/ \E e \in EffectKinds : RunEffect(e) \/ LoseEffect(e)
    \/ worker[D!Sweeper].pc = "idle" /\ SweepRead
    \/ Sweep \/ SweepPassesBy
    \/ Tick

\* recordSettlementLegsTx, in the transaction of the step.
RecordLegs ==
    IF legs' = legs THEN UNCHANGED moneyVars ELSE D!RecordBatch(BatchOfLegs(legs'))

\* A step of a payer, of the leg passes of the sweeper's tick, of the provider
\* or of a notification.
MoneyStep ==
    \/ \E w \in D!Workers : D!WorkerStep(w) /\ (w = D!Sweeper => swept = NoTime)
    \/ \E l \in Rows : D!ProviderStep(l)
    \/ \E n \in D!Notices : D!NoticeStep(n)

SystemNext ==
    \/ PocketStep /\ RecordLegs
    \/ MoneyStep /\ UNCHANGED vars
    \/ Crash /\ D!Crash

SystemSpec == SystemInit /\ [][SystemNext]_systemVars

-----------------------------------------------------------------------------
(* Properties *)

\* applyTransitionTx: the rows of settlements are the legs the pocket's closing
\* transition committed to, no other and no fewer.
RowsAreTheLegs ==
    {l \in Rows : status[l] # "none"} =
        IF legs = {} THEN {} ELSE D!LegsOfBatch(BatchOfLegs(legs))

\* README, "holds the buyer's money": whatever handlers, sweeper, crashes, lost
\* answers and notifications interleave, the provider is asked to pay nothing
\* while the pocket is open, and then the decided side only, each share once.
PaidAsDecided ==
    \A l \in Rows : D!Submissions(l) > 0 =>
        /\ D!Submissions(l) = 1
        /\ LegOfRow(l) \in legs
        /\ pocket.state = IF l = Refund THEN "REFUNDED" ELSE "SETTLED"

\* What has left the provider for a row.
PaidOut(l) == provider[l]["moved"] * LegOfRow(l).amount

\* No more ever leaves the provider than the buyer put in.
NeverOverpaid ==
    PaidOut(1) + PaidOut(2) + PaidOut(3) + PaidOut(4) <= BuyerTotal(terms)

\* Once the provider was asked to pay, nobody changes what is owed.
OwedIsFinal ==
    [][(\E l \in Rows : D!Submissions(l) > 0) =>
           UNCHANGED <<terms, pocket, events, legs>>]_systemVars

=============================================================================
