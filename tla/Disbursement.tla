---------------------------- MODULE Disbursement ----------------------------
(***************************************************************************)
(* Two-phase settlement: the legs recorded by committed transitions are    *)
(* paid through a provider that does not enforce idempotency keys          *)
(* (pocketapp/effects.go, pocketapp/sweep.go, store/settlements.go), while *)
(* the provider's notifications come in by webhook (pocketapp/ingest.go).  *)
(*                                                                         *)
(* Workers are the post-commit payer of each batch of legs and the         *)
(* sweeper.  Each SQL statement is one autocommitted step; between two of  *)
(* them, other workers, notifications and a crash may come.                *)
(***************************************************************************)
EXTENDS Integers, FiniteSets

CONSTANTS
    Legs,       \* settlement legs, numbered in the order (created_at, id)
    BatchOf,    \* the transition that recorded each leg, numbered in order
    CanQuery    \* the gateway implements StatusQuerier

ASSUME DisbursementAssumption ==
    /\ Legs \subseteq Nat
    /\ BatchOf \in [Legs -> Nat]
    /\ CanQuery \in BOOLEAN

Batches == {BatchOf[l] : l \in Legs}
LegsOfBatch(b) == {l \in Legs : BatchOf[l] = b}

\* The sweeper is one more worker beside the payer of each batch.
Sweeper == -1
Workers == Batches \cup {Sweeper}

VARIABLES
    status,     \* settlements.status, "none" before the leg is recorded
    worker,     \* what each worker holds in memory
    provider,   \* the submissions of each leg, counted by where they stand
    sent,       \* notifications the provider has sent and may send again
    checked,    \* deliveries past RecordWebhookEvent, not yet applied
    applied,    \* deliveries applied, not yet marked
    processed,  \* webhook_events.processed_at IS NOT NULL
    stable      \* no crash and no database failure from here on

hooks == <<sent, checked, applied, processed, stable>>
vars == <<status, worker, provider, sent, checked, applied, processed, stable>>

Statuses == {"none", "pending", "inflight", "confirmed", "failed"}

\* A worker lists legs, then claims, calls and records them one by one; the
\* sweeper first queries and resolves the inflight ones if it can.
PCs == {"idle", "query", "resolve", "list", "claim", "call", "wait", "answered"}
Answers == {"none", "ok", "rejected", "not_submitted", "ambiguous",
            "executed", "absent", "unknown"}
WorkerStates == [pc : PCs, queue : SUBSET Legs, leg : Legs \cup {-1}, answer : Answers]
IdleWorker == [pc |-> "idle", queue |-> {}, leg |-> -1, answer |-> "none"]

\* On the wire, lost there, accepted and open, executed, or closed unpaid.
Places == {"wire", "lost", "open", "moved", "void"}
OnRecord(l) == provider[l]["open"] + provider[l]["moved"] + provider[l]["void"]
Submissions(l) == provider[l]["wire"] + provider[l]["lost"] + OnRecord(l)

Notices == [leg : Legs, kind : {"payout_succeeded", "payout_failed"}]

\* The two notifications a leg can have.
Returned(l) == [leg |-> l, kind |-> "payout_failed"]
Paid(l) == [leg |-> l, kind |-> "payout_succeeded"]

Oldest(S, l) == l \in S /\ \A m \in S : l <= m

-----------------------------------------------------------------------------

Init ==
    /\ status = [l \in Legs |-> "none"]
    /\ worker = [w \in Workers |-> IdleWorker]
    /\ provider = [l \in Legs |-> [p \in Places |-> 0]]
    /\ sent = {} /\ checked = {} /\ applied = {} /\ processed = {}
    /\ stable = FALSE

\* recordSettlementLegsTx in a committed transition; its handler goes on to
\* paySettlements.  A transition that never commits leaves its number unused.
RecordBatch(b) ==
    /\ \A l \in Legs : BatchOf[l] >= b => status[l] = "none"
    /\ status' = [l \in Legs |-> IF BatchOf[l] = b THEN "pending" ELSE status[l]]
    /\ worker' = [worker EXCEPT ![b].pc = "list"]
    /\ UNCHANGED <<provider, hooks>>

-----------------------------------------------------------------------------
(* The three conditional updates of store/settlements.go. *)

ConfirmSettlement(l) ==
    status' = IF status[l] \in {"pending", "inflight"}
              THEN [status EXCEPT ![l] = "confirmed"] ELSE status

\* Bug: a confirmed leg is taken for final.
FailUnconfirmed(l) ==
    status' = IF status[l] \in {"pending", "inflight"}
              THEN [status EXCEPT ![l] = "failed"] ELSE status

FailSettlementLeg(l) ==
    status' = IF status[l] \in {"pending", "inflight", "confirmed"}
              THEN [status EXCEPT ![l] = "failed"] ELSE status

\* Bug: a state the table's CHECK constraint does not know.
ReleaseAsRetry(l) ==
    status' = IF status[l] = "inflight" THEN [status EXCEPT ![l] = "retry"] ELSE status

ReleaseSettlementLeg(l) ==
    status' = IF status[l] = "inflight"
              THEN [status EXCEPT ![l] = "pending"] ELSE status

-----------------------------------------------------------------------------
(* Workers. *)

GoTo(w, pc) == worker' = [worker EXCEPT ![w].pc = pc]

\* One sweeper tick starts: inflight legs first, then pending ones.
Tick ==
    /\ worker[Sweeper].pc = "idle"
    /\ IF CanQuery
       THEN worker' = [worker EXCEPT ![Sweeper] =
                [pc |-> "query", queue |-> {l \in Legs : status[l] = "inflight"},
                 leg |-> -1, answer |-> "none"]]
       ELSE GoTo(Sweeper, "list")
    /\ UNCHANGED <<status, provider, hooks>>

\* StatusQuerier.PayoutStatus: executed, never received so far, or no answer.
Query ==
    /\ worker[Sweeper].pc = "query"
    /\ \/ /\ worker[Sweeper].queue = {}
          /\ GoTo(Sweeper, "list")
       \/ \E l \in Legs, a \in {"executed", "absent", "unknown"} :
            /\ Oldest(worker[Sweeper].queue, l)
            /\ a = "executed" => provider[l]["moved"] > 0
            /\ a = "absent" => OnRecord(l) = 0
            /\ worker' = [worker EXCEPT ![Sweeper] =
                   [pc |-> "resolve", queue |-> @.queue \ {l}, leg |-> l, answer |-> a]]
    /\ UNCHANGED <<status, provider, hooks>>

\* SweepInflightSettlementLegs acts on the answer.
Resolve ==
    LET me == worker[Sweeper] IN
    /\ me.pc = "resolve"
    /\ \/ me.answer = "executed" /\ ConfirmSettlement(me.leg)
       \/ me.answer = "absent" /\ ReleaseSettlementLeg(me.leg)
       \/ me.answer = "unknown" /\ UNCHANGED status
    /\ GoTo(Sweeper, "query")
    /\ UNCHANGED <<provider, hooks>>

\* Bug: the sweeper never looks beyond a batch of its own.
ListOwnBatch(w) ==
    /\ worker[w].pc = "list"
    /\ worker' = [worker EXCEPT ![w] =
           [pc |-> "claim", queue |-> {l \in Legs : status[l] = "pending" /\ BatchOf[l] = w},
            leg |-> -1, answer |-> "none"]]
    /\ UNCHANGED <<status, provider, hooks>>

\* PendingSettlementLegs for the sweeper, PendingSettlementLegsForPocket for a payer.
List(w) ==
    /\ worker[w].pc = "list"
    /\ worker' = [worker EXCEPT ![w] =
           [pc |-> "claim",
            queue |-> {l \in Legs : status[l] = "pending" /\ (w = Sweeper \/ BatchOf[l] = w)},
            leg |-> -1, answer |-> "none"]]
    /\ UNCHANGED <<status, provider, hooks>>

\* Bug: the claim does not look at the status again.
ClaimBlindly(w) ==
    \E l \in Legs :
        /\ worker[w].pc = "claim" /\ Oldest(worker[w].queue, l)
        /\ status' = [status EXCEPT ![l] = "inflight"]
        /\ worker' = [worker EXCEPT ![w] =
              [pc |-> "call", queue |-> @.queue \ {l}, leg |-> l, answer |-> "none"]]
        /\ UNCHANGED <<provider, hooks>>

\* ClaimSettlementLeg on the oldest leg of the list, which may be stale.
Claim(w) ==
    \E l \in Legs :
        /\ worker[w].pc = "claim" /\ Oldest(worker[w].queue, l)
        /\ IF status[l] = "pending"
           THEN /\ status' = [status EXCEPT ![l] = "inflight"]
                /\ worker' = [worker EXCEPT ![w] =
                      [pc |-> "call", queue |-> @.queue \ {l}, leg |-> l, answer |-> "none"]]
           ELSE /\ worker' = [worker EXCEPT ![w].queue = @ \ {l}]
                /\ UNCHANGED status
        /\ UNCHANGED <<provider, hooks>>

Finish(w) ==
    /\ worker[w].pc = "claim" /\ worker[w].queue = {}
    /\ worker' = [worker EXCEPT ![w] = IdleWorker]
    /\ UNCHANGED <<status, provider, hooks>>

Answer(w, a) == worker' = [worker EXCEPT ![w] = [@ EXCEPT !.pc = "answered", !.answer = a]]

\* gateway.Payout or Refund puts the request on the wire.
Submit(w) ==
    /\ worker[w].pc = "call"
    /\ provider' = [provider EXCEPT ![worker[w].leg]["wire"] = @ + 1]
    /\ GoTo(w, "wait")
    /\ UNCHANGED <<status, hooks>>

\* No beneficiary configured, or the dial failed.
NotSubmitted(w) ==
    /\ worker[w].pc = "call"
    /\ Answer(w, "not_submitted")
    /\ UNCHANGED <<status, provider, hooks>>

\* The bearer token could not be had: the grant's own error is returned as if
\* the transfer had been refused, or had ended ambiguously.
TokenRefused(w) ==
    /\ worker[w].pc = "call"
    /\ Answer(w, "rejected") \/ Answer(w, "ambiguous")
    /\ UNCHANGED <<status, provider, hooks>>

\* Bugs: a timeout classified as never sent, or as a refusal.
TimeoutAsUnsent(w) ==
    worker[w].pc = "wait" /\ Answer(w, "not_submitted") /\ UNCHANGED <<status, provider, hooks>>
TimeoutAsRejected(w) ==
    worker[w].pc = "wait" /\ Answer(w, "rejected") /\ UNCHANGED <<status, provider, hooks>>

\* The client gives up waiting; the request may still be on its way.
Timeout(w) ==
    /\ worker[w].pc = "wait"
    /\ Answer(w, "ambiguous")
    /\ UNCHANGED <<status, provider, hooks>>

\* payLeg acts on the answer: only an accepted leg lets the loop go on.
Act(w) ==
    LET me == worker[w] IN
    /\ me.pc = "answered"
    /\ \/ /\ me.answer = "ok" /\ ConfirmSettlement(me.leg)
          /\ worker' = [worker EXCEPT ![w] = [@ EXCEPT !.pc = "claim", !.answer = "none"]]
       \/ /\ \/ me.answer = "rejected" /\ FailSettlementLeg(me.leg)
             \/ me.answer = "not_submitted" /\ ReleaseSettlementLeg(me.leg)
             \/ me.answer = "ambiguous" /\ UNCHANGED status
          /\ worker' = [worker EXCEPT ![w] = IdleWorker]
    /\ UNCHANGED <<provider, hooks>>

\* The database refuses a statement of the worker (its request's context is
\* cancelled, the connection is gone): payLeg or the resolving pass returns.
StoreFails(w) ==
    /\ ~stable
    /\ worker[w].pc \in {"list", "claim", "answered", "resolve"}
    /\ worker' = [worker EXCEPT ![w] =
           IF @.pc = "resolve" THEN [IdleWorker EXCEPT !.pc = "list"] ELSE IdleWorker]
    /\ UNCHANGED <<status, provider, hooks>>

-----------------------------------------------------------------------------
(* The provider (external). *)

Shift(l, from, to) ==
    /\ provider[l][from] > 0
    /\ provider' = [provider EXCEPT ![l][from] = @ - 1, ![l][to] = @ + 1]

\* The response reaches a worker that still waits on the leg, or nobody.
Reply(l, a) ==
    \/ UNCHANGED worker
    \/ \E w \in Workers : worker[w].pc = "wait" /\ worker[w].leg = l /\ Answer(w, a)

Notify(l, kind) == sent' = sent \cup {[leg |-> l, kind |-> kind]}

\* Accepted: SUCCESS, NEW or PENDING_BILLING.
Accept(l) ==
    /\ Shift(l, "wire", "open") /\ Reply(l, "ok")
    /\ UNCHANGED <<status, hooks>>

\* Refused outright, or returned at once (status REFUND).
Reject(l) ==
    /\ Shift(l, "wire", "void") /\ Reply(l, "rejected")
    /\ Notify(l, "payout_failed") \/ UNCHANGED sent
    /\ UNCHANGED <<status, checked, applied, processed, stable>>

LoseRequest(l) ==
    /\ Shift(l, "wire", "lost")
    /\ UNCHANGED <<status, worker, hooks>>

Execute(l) ==
    /\ Shift(l, "open", "moved") /\ Notify(l, "payout_succeeded")
    /\ UNCHANGED <<status, worker, checked, applied, processed, stable>>

Return(l) ==
    /\ Shift(l, "open", "void") /\ Notify(l, "payout_failed")
    /\ UNCHANGED <<status, worker, checked, applied, processed, stable>>

-----------------------------------------------------------------------------
(* Notifications: any number of deliveries, also concurrent ones. *)

\* Bug: the event is marked processed when it is recorded.
ReceiveAndMark(n) ==
    /\ n \in sent \ processed
    /\ checked' = checked \cup {n}
    /\ processed' = processed \cup {n}
    /\ UNCHANGED <<status, worker, provider, sent, applied, stable>>

\* RecordWebhookEvent: an event already processed is a replay and is ignored.
ReceiveNotice(n) ==
    /\ n \in sent \ processed
    /\ checked' = checked \cup {n}
    /\ UNCHANGED <<status, worker, provider, sent, applied, processed, stable>>

\* Bug: a payout the provider returned is put back for another try.
ApplyNoticeRetry(n) ==
    /\ n \in checked
    /\ IF n.kind = "payout_succeeded" THEN ConfirmSettlement(n.leg)
                                      ELSE ReleaseSettlementLeg(n.leg)
    /\ checked' = checked \ {n}
    /\ applied' = applied \cup {n}
    /\ UNCHANGED <<worker, provider, sent, processed, stable>>

\* processGatewayEvent on a payout notification.
ApplyNotice(n) ==
    /\ n \in checked
    /\ IF n.kind = "payout_succeeded" THEN ConfirmSettlement(n.leg)
                                      ELSE FailSettlementLeg(n.leg)
    /\ checked' = checked \ {n}
    /\ applied' = applied \cup {n}
    /\ UNCHANGED <<worker, provider, sent, processed, stable>>

MarkWebhookProcessed(n) ==
    /\ n \in applied
    /\ applied' = applied \ {n}
    /\ processed' = processed \cup {n}
    /\ UNCHANGED <<status, worker, provider, sent, checked, stable>>

Crash ==
    /\ ~stable
    /\ worker' = [w \in Workers |-> IdleWorker]
    /\ checked' = {} /\ applied' = {}
    /\ UNCHANGED <<status, provider, sent, processed, stable>>

\* Crashes and database failures come to an end.
Stabilise == stable' = TRUE /\ UNCHANGED <<status, worker, provider, sent, checked, applied, processed>>

-----------------------------------------------------------------------------

WorkerStep(w) ==
    \/ List(w) \/ Claim(w) \/ Finish(w) \/ Submit(w) \/ NotSubmitted(w)
    \/ TokenRefused(w) \/ Timeout(w) \/ Act(w) \/ StoreFails(w)
    \/ w = Sweeper /\ (Tick \/ Query \/ Resolve)

ProviderStep(l) == Accept(l) \/ Reject(l) \/ LoseRequest(l) \/ Execute(l) \/ Return(l)

NoticeStep(n) == ReceiveNotice(n) \/ ApplyNotice(n) \/ MarkWebhookProcessed(n)

Next ==
    \/ \E b \in Batches : RecordBatch(b)
    \/ \E w \in Workers : WorkerStep(w)
    \/ \E l \in Legs : ProviderStep(l)
    \/ \E n \in Notices : NoticeStep(n)
    \/ Crash \/ Stabilise

Spec == Init /\ [][Next]_vars

(***************************************************************************)
(* Fairness the program has: the sweeper ticks, a started worker goes on,  *)
(* an HTTP call ends at the latest by its timeout, the provider redelivers *)
(* a notification until it is acknowledged; the process stops crashing and *)
(* the database stops failing at some point.  Nothing is asked of the      *)
(* provider's handling of a request.                                       *)
(***************************************************************************)
Fairness ==
    /\ \A w \in Workers :
         /\ WF_vars(List(w)) /\ WF_vars(Claim(w)) /\ WF_vars(Finish(w))
         /\ WF_vars(Submit(w) \/ NotSubmitted(w) \/ TokenRefused(w))
         /\ WF_vars(Timeout(w)) /\ WF_vars(Act(w))
    /\ WF_vars(Tick) /\ WF_vars(Query) /\ WF_vars(Resolve)
    /\ \A n \in Notices : /\ WF_vars(ReceiveNotice(n)) /\ WF_vars(ApplyNotice(n))
                          /\ WF_vars(MarkWebhookProcessed(n))
    /\ WF_vars(Stabilise)

FairSpec == Spec /\ Fairness

-----------------------------------------------------------------------------
(* Properties *)

\* Every column, process and counter stays in its domain.
TypeOK ==
    /\ status \in [Legs -> Statuses]
    /\ worker \in [Workers -> WorkerStates]
    /\ provider \in [Legs -> [Places -> Nat]]
    /\ sent \subseteq Notices /\ checked \subseteq Notices
    /\ applied \subseteq Notices /\ processed \subseteq Notices
    /\ stable \in BOOLEAN

\* payLeg: "bounds every leg to at most one live submission", whatever workers,
\* notifications, lost answers and crashes interleave.
AtMostOneSubmission == \A l \in Legs : Submissions(l) <= 1

\* ReleaseSettlementLeg: a leg that may still be claimed was never on its way
\* to the provider, and nobody is about to send it.
PendingMeansUnsubmitted ==
    \A l \in Legs :
        status[l] \in {"none", "pending"} =>
            /\ Submissions(l) = 0
            /\ \A w \in Workers : worker[w].pc \in {"call", "wait", "answered"} => worker[w].leg # l

\* FailSettlementLeg: a failed leg did not pay and can no longer pay, so an
\* operator may pay it by hand.
FailedLegsArePayable ==
    \A l \in Legs :
        status[l] = "failed" =>
            /\ provider[l]["wire"] = 0 /\ provider[l]["open"] = 0 /\ provider[l]["moved"] = 0
            /\ \A w \in Workers : ~(worker[w].pc = "call" /\ worker[w].leg = l)

\* ConfirmSettlement: a confirmed leg was accepted; if the provider returned it
\* after all, the notification that says so is still to be applied.
ConfirmedLegsWereAccepted ==
    \A l \in Legs :
        status[l] = "confirmed" =>
            /\ OnRecord(l) = 1
            /\ provider[l]["void"] = 1 => Returned(l) \in sent \ processed

\* RecordWebhookEvent: "Two concurrent deliveries may both see true; downstream
\* processing tolerates that": applying an event that another delivery already
\* completed changes nothing.
ReplaysAreNoOps ==
    [][\A n \in processed : ApplyNotice(n) => UNCHANGED status]_vars

Holds(w, l) == worker[w].pc \in {"call", "wait", "answered"} /\ worker[w].leg = l
Answered(w, l, a) == Holds(w, l) /\ worker[w].pc = "answered" /\ worker[w].answer = a

\* The provider took the transfer, and says so if it returned it.
Took(l) ==
    \/ provider[l]["open"] = 1 \/ provider[l]["moved"] = 1
    \/ provider[l]["void"] = 1 /\ Returned(l) \in sent

\* The claim protocol around one leg.  Its column agrees with what the provider
\* has seen of it;
ColumnProtocol(l) ==
    /\ Submissions(l) <= 1
    /\ status[l] \in {"none", "pending"} => Submissions(l) = 0
    /\ status[l] = "failed" =>
           provider[l]["wire"] + provider[l]["open"] + provider[l]["moved"] = 0
    /\ status[l] = "confirmed" => Took(l)

\* it has one holder, whose next step is licensed by what the provider has seen;
HolderProtocol(l) ==
    /\ status[l] \in {"none", "pending"} => \A w \in Workers : ~Holds(w, l)
    /\ \A v, w \in Workers : Holds(v, l) /\ Holds(w, l) => v = w
    /\ \A w \in Workers :
         /\ (Holds(w, l) /\ worker[w].pc = "call") \/ Answered(w, l, "not_submitted") =>
                status[l] = "inflight" /\ Submissions(l) = 0
         /\ Answered(w, l, "rejected") =>
                provider[l]["wire"] + provider[l]["open"] + provider[l]["moved"] = 0
         /\ Answered(w, l, "ok") => Took(l)

\* and its notifications tell what the provider did, and are obeyed once applied.
NoticeProtocol(l) ==
    /\ Paid(l) \in sent => provider[l]["moved"] = 1
    /\ Returned(l) \in sent => provider[l]["void"] = 1
    /\ Paid(l) \in applied \cup processed => status[l] = "confirmed"
    /\ Returned(l) \in applied \cup processed => status[l] = "failed"

LegProtocol(l) == ColumnProtocol(l) /\ HolderProtocol(l) /\ NoticeProtocol(l)

\* payLeg's claim protocol, inductive for the gateways that cannot be queried.
ClaimProtocol ==
    /\ \A w \in Workers : worker[w].pc \notin {"query", "resolve"}
    /\ \A l \in Legs : LegProtocol(l)
    /\ checked \cup applied \cup processed \subseteq sent

\* Two-phase settlement implements the promise of module Payment.
MoneyBar ==
    [l \in Legs |->
        IF Submissions(l) > 1 THEN "double"
        ELSE IF Submissions(l) = 0 THEN "held"
        ELSE IF provider[l]["moved"] > 0 THEN "paid"
        ELSE IF provider[l]["wire"] + provider[l]["open"] > 0 THEN "underway"
        ELSE "void"]

P == INSTANCE Payment WITH money <- MoneyBar

PaymentSpec == P!Spec

\* The provider's outcome reaches the ledger: an executed leg is confirmed and
\* a returned one fails, even if the submitting process never got its answer.
OutcomeReachesLedger ==
    \A l \in Legs :
        /\ provider[l]["moved"] > 0 ~> status[l] = "confirmed"
        /\ Returned(l) \in sent ~> status[l] = "failed"

\* SweepPendingSettlementLegs: a pending leg is claimed for good once no call
\* fails before it is sent.
PendingLegsAreSubmitted ==
    <>[][\A w \in Workers : ~NotSubmitted(w)]_vars =>
        \A l \in Legs : status[l] = "pending" ~> status[l] # "pending"

-----------------------------------------------------------------------------
(* What a document or a comment says of the code, and the code does not do. *)

\* SweepPendingSettlementLegs: a leg left unpaid by a crash "is paid here,
\* exactly once, on the next pass": a leg whose own calls get through is
\* claimed, whatever happens to other legs.
SoundLegsAreSubmitted ==
    \A l \in Legs :
        <>[][\A w \in Workers : worker[w].leg = l => ~NotSubmitted(w)]_vars =>
            (status[l] = "pending" ~> status[l] # "pending")

===========================================================================
