------------------------------ MODULE Funding -------------------------------
(***************************************************************************)
(* How a buyer's payment becomes a FUNDED pocket: the checkout link minted *)
(* after acceptance, the provider's payment notification, the pull-side    *)
(* verification by requests and by the sweeper, and the expiry rule that   *)
(* follows it in the sweeper's tick (pocketapp/funding.go, ingest.go,      *)
(* effects.go, store/sweep.go, webhooks.go, settlement/sweeper.go).        *)
(*                                                                         *)
(* Each SQL statement or transaction and each provider call is one step.   *)
(* What happens to a pocket from FUNDED on is module Lifecycle's; here it  *)
(* stays FUNDED, which stands for every state of fundingApplied.           *)
(***************************************************************************)
EXTENDS Integers, FiniteSets

CONSTANTS
    Pockets,      \* numbered in the order of created_at
    Ttl,          \* Spec.FundingTTL
    VerifyLimit,  \* the LIMIT of PocketsAwaitingFunding (100)
    AmountsTold,  \* the provider tells a short payment: a notification states the
                  \* amount paid, and a short payment does not complete the order
    Handlers,     \* webhook deliveries and verification requests in progress
    MaxTime       \* the clock stops here

ASSUME FundingAssumption ==
    /\ Pockets \subseteq Nat
    /\ Ttl \in Nat \ {0} /\ VerifyLimit \in Nat \ {0} /\ MaxTime \in Nat
    /\ AmountsTold \in BOOLEAN
    /\ "sweeper" \notin Handlers

Sweeper == "sweeper"
Workers == Handlers \cup {Sweeper}

VARIABLES
    state,      \* pockets.state
    deadline,   \* pockets.funding_expires_at
    link,       \* the funding link: none, to be minted by an effect, stored
    paid,       \* the payment at the provider: none, short of the total, in
                \* full before the deadline, or in full later
    notified,   \* the provider has sent the payment's notification
    processed,  \* webhook_events.processed_at of that notification is set
    txn,        \* pockets.funding_transaction_id, by where it came from
    worker,     \* what each handler and the sweeper hold in memory
    clock,
    stable      \* no crash and no failing statement or call from here on

provider == <<paid, notified>>
record == <<state, deadline, link, processed, txn>>
vars == <<state, deadline, link, paid, notified, processed, txn, worker, clock, stable>>

States == {"DRAFT", "CREATED", "FUNDED", "EXPIRED", "CANCELLED"}
Payments == {"none", "short", "full", "late"}
InFull == {"full", "late"}

\* What the provider calls a paid order.
Completes == IF AmountsTold THEN InFull ELSE InFull \cup {"short"}

\* A notice or a query answer leads to credit, record and, for a notice, mark;
\* the sweeper lists pockets, takes them one by one and then expires.
PCs == {"idle", "ask", "credit", "record", "mark", "next", "expire"}
Sources == {"notice", "query"}
WorkerStates == [pc : PCs, pocket : Pockets \cup {-1}, via : Sources, queue : SUBSET Pockets]
At(pc, p, via) == [pc |-> pc, pocket |-> p, via |-> via, queue |-> {}]
Idle == At("idle", -1, "query")

GoTo(w, pc) == worker' = [worker EXCEPT ![w].pc = pc]

\* A worker is done with its pocket: a handler answers, the sweeper goes on.
Release(w) ==
    worker' = [worker EXCEPT ![w] =
                  IF w = Sweeper THEN [@ EXCEPT !.pc = "next", !.pocket = -1] ELSE Idle]

-----------------------------------------------------------------------------

Init ==
    /\ state = [p \in Pockets |-> "DRAFT"]
    /\ deadline = [p \in Pockets |-> 0]
    /\ link = [p \in Pockets |-> "none"]
    /\ paid = [p \in Pockets |-> "none"]
    /\ notified = [p \in Pockets |-> FALSE]
    /\ processed = [p \in Pockets |-> FALSE]
    /\ txn = [p \in Pockets |-> "none"]
    /\ worker = [w \in Workers |-> Idle]
    /\ clock = 0
    /\ stable \in BOOLEAN

\* The last acceptance: CREATED, the funding window and the link effect.
Accept(p) ==
    /\ state[p] = "DRAFT"
    /\ state' = [state EXCEPT ![p] = "CREATED"]
    /\ deadline' = [deadline EXCEPT ![p] = clock + Ttl]
    /\ link' = [link EXCEPT ![p] = "minting"]
    /\ UNCHANGED <<provider, processed, txn, worker, clock, stable>>

\* The effect CreateFundingLink: the order is made and its link stored ...
MintLink(p) ==
    /\ link[p] = "minting"
    /\ link' = [link EXCEPT ![p] = "stored"]
    /\ UNCHANGED <<state, deadline, provider, processed, txn, worker, clock, stable>>

\* ... or something failed on the way, and the effect is not run again.
LoseLink(p) ==
    /\ ~stable
    /\ link[p] = "minting"
    /\ link' = [link EXCEPT ![p] = "none"]
    /\ UNCHANGED <<state, deadline, provider, processed, txn, worker, clock, stable>>

\* App.Cancel before funding.
Cancel(p) ==
    /\ state[p] = "CREATED"
    /\ state' = [state EXCEPT ![p] = "CANCELLED"]
    /\ UNCHANGED <<deadline, link, provider, processed, txn, worker, clock, stable>>

-----------------------------------------------------------------------------
(* The buyer and the provider (external).  The link stays payable at the   *)
(* provider for ever, and a notification may never be sent.                *)

Pay(p) ==
    /\ link[p] = "stored" /\ paid[p] = "none"
    /\ \E a \in {"short", IF clock < deadline[p] THEN "full" ELSE "late"} :
          paid' = [paid EXCEPT ![p] = a]
    /\ UNCHANGED <<notified, record, worker, clock, stable>>

Notify(p) ==
    /\ paid[p] # "none" /\ ~notified[p]
    /\ notified' = [notified EXCEPT ![p] = TRUE]
    /\ UNCHANGED <<paid, record, worker, clock, stable>>

-----------------------------------------------------------------------------
(* Ways into the credit path. *)

\* RecordWebhookEvent finds the event unprocessed; its reference leads to p.
Deliver(h, p) ==
    /\ worker[h].pc = "idle"
    /\ notified[p] /\ ~processed[p]
    /\ worker' = [worker EXCEPT ![h] = At("credit", p, "notice")]
    /\ UNCHANGED <<provider, record, clock, stable>>

\* VerifyFunding for a request: only a CREATED pocket leads to a query.
BeginVerify(h, p) ==
    /\ worker[h].pc = "idle"
    /\ state[p] = "CREATED"
    /\ worker' = [worker EXCEPT ![h] = At("ask", p, "query")]
    /\ UNCHANGED <<provider, record, clock, stable>>

\* PocketsAwaitingFunding.
Awaiting == {p \in Pockets :
                state[p] = "CREATED" /\ link[p] = "stored" /\ clock < deadline[p]}

\* Bug: the newest pockets come first.
Newest(S) == {p \in S : Cardinality({q \in S : q > p}) < VerifyLimit}

\* ORDER BY created_at LIMIT VerifyLimit.
Oldest(S) == {p \in S : Cardinality({q \in S : q < p}) < VerifyLimit}

\* One tick of the sweeper starts with the verification pass.
ListAwaiting ==
    /\ worker[Sweeper].pc = "idle"
    /\ worker' = [worker EXCEPT ![Sweeper] = [Idle EXCEPT !.pc = "next", !.queue = Oldest(Awaiting)]]
    /\ UNCHANGED <<provider, record, clock, stable>>

\* The listing fails; the tick goes on with its next rule.
ListFails ==
    /\ ~stable
    /\ worker[Sweeper].pc = "idle"
    /\ GoTo(Sweeper, "expire")
    /\ UNCHANGED <<provider, record, clock, stable>>

\* VerifyFunding for the next pocket of the list, read again.
VerifyNext ==
    LET queue == worker[Sweeper].queue IN
    /\ worker[Sweeper].pc = "next"
    /\ \E p \in queue :
          /\ \A q \in queue : p <= q
          /\ worker' = [worker EXCEPT ![Sweeper] =
                 IF state[p] = "CREATED"
                 THEN [@ EXCEPT !.pc = "ask", !.pocket = p, !.queue = queue \ {p}]
                 ELSE [@ EXCEPT !.queue = queue \ {p}]]
    /\ UNCHANGED <<provider, record, clock, stable>>

\* The provider reports a completed payment of the order, or reports none, or
\* does not answer.  That the report is true is assumed of the provider:
\* docs/RUNBOOK.md has the sandbox answer every query from fixtures.
Ask(w) ==
    /\ worker[w].pc = "ask"
    /\ \/ paid[worker[w].pocket] \in Completes /\ GoTo(w, "credit")
       \/ (paid[worker[w].pocket] \notin Completes \/ ~stable) /\ Release(w)
    /\ UNCHANGED <<provider, record, clock, stable>>

-----------------------------------------------------------------------------
(* creditFunding and what follows it. *)

\* Bug: amounts are not compared.
NotCompared(w) == FALSE

\* The amount compared is a notification's, which may not be stated, or the
\* order's own, which is never below the total.
Underpaid(w) ==
    AmountsTold /\ worker[w].via = "notice" /\ paid[worker[w].pocket] = "short"

\* Underpayment and a closed pocket end the handling: acknowledged, unmarked.
\* Otherwise CREATED becomes FUNDED, and a pocket already funded is left alone.
Credit(w) ==
    LET p == worker[w].pocket IN
    /\ worker[w].pc = "credit"
    /\ \/ /\ Underpaid(w) \/ state[p] \in {"EXPIRED", "CANCELLED"}
          /\ Release(w)
          /\ UNCHANGED state
       \/ /\ ~Underpaid(w) /\ state[p] \in {"CREATED", "FUNDED"}
          /\ state' = [state EXCEPT ![p] = "FUNDED"]
          /\ GoTo(w, "record")
    /\ UNCHANGED <<deadline, link, provider, processed, txn, clock, stable>>

\* Bug: the transaction id is overwritten.
RecordLast(w) ==
    LET me == worker[w] IN
    /\ me.pc = "record"
    /\ txn' = [txn EXCEPT ![me.pocket] = me.via]
    /\ IF me.via = "notice" THEN GoTo(w, "mark") ELSE Release(w)
    /\ UNCHANGED <<state, deadline, link, provider, processed, clock, stable>>

\* Bug: an empty transaction id is written.
RecordEmpty(w) ==
    LET me == worker[w] IN
    /\ me.pc = "record"
    /\ txn' = [txn EXCEPT ![me.pocket] = IF @ = "none" THEN "" ELSE @]
    /\ IF me.via = "notice" THEN GoTo(w, "mark") ELSE Release(w)
    /\ UNCHANGED <<state, deadline, link, provider, processed, clock, stable>>

\* SetFundingTransaction writes once.
Record(w) ==
    LET me == worker[w] IN
    /\ me.pc = "record"
    /\ txn' = [txn EXCEPT ![me.pocket] = IF @ = "none" THEN me.via ELSE @]
    /\ IF me.via = "notice" THEN GoTo(w, "mark") ELSE Release(w)
    /\ UNCHANGED <<state, deadline, link, provider, processed, clock, stable>>

\* MarkWebhookProcessed.
Mark(w) ==
    /\ worker[w].pc = "mark"
    /\ processed' = [processed EXCEPT ![worker[w].pocket] = TRUE]
    /\ Release(w)
    /\ UNCHANGED <<state, deadline, link, provider, txn, clock, stable>>

\* A statement fails: the delivery is answered with an error, the sweeper takes
\* the next pocket, or ends its pass.
Fails(w) ==
    /\ ~stable
    /\ worker[w].pc \in {"credit", "record", "mark"}
    /\ Release(w)
    /\ UNCHANGED <<provider, record, clock, stable>>

-----------------------------------------------------------------------------
(* The rest of the tick, and time. *)

EndVerification ==
    /\ worker[Sweeper].pc = "next" /\ worker[Sweeper].queue = {}
    /\ GoTo(Sweeper, "expire")
    /\ UNCHANGED <<provider, record, clock, stable>>

\* SweepOneExpiredFunding on one due pocket.
Expire(p) ==
    /\ worker[Sweeper].pc = "expire"
    /\ state[p] = "CREATED" /\ deadline[p] <= clock
    /\ state' = [state EXCEPT ![p] = "EXPIRED"]
    /\ UNCHANGED <<deadline, link, provider, processed, txn, worker, clock, stable>>

\* The drain finds nothing due, or nothing that is not locked.
EndTick ==
    /\ worker[Sweeper].pc = "expire"
    /\ worker' = [worker EXCEPT ![Sweeper] = Idle]
    /\ UNCHANGED <<provider, record, clock, stable>>

\* The process dies: workers and effects are gone.
Crash ==
    /\ ~stable
    /\ worker' = [w \in Workers |-> Idle]
    /\ link' = [p \in Pockets |-> IF link[p] = "minting" THEN "none" ELSE link[p]]
    /\ UNCHANGED <<state, deadline, provider, processed, txn, clock, stable>>

Tick ==
    /\ clock < MaxTime
    /\ clock' = clock + 1
    /\ UNCHANGED <<provider, record, worker, stable>>

\* From some point on nothing crashes and no statement or call fails.
Stabilise ==
    /\ ~stable
    /\ stable' = TRUE
    /\ UNCHANGED <<provider, record, worker, clock>>

-----------------------------------------------------------------------------

PocketStep(p) == Accept(p) \/ MintLink(p) \/ LoseLink(p) \/ Cancel(p) \/ Pay(p) \/ Notify(p)

CreditStep(w) == Credit(w) \/ Record(w) \/ Mark(w)

SweepStep ==
    \/ ListAwaiting \/ ListFails \/ VerifyNext \/ EndVerification \/ EndTick
    \/ \E p \in Pockets : Expire(p)

Next ==
    \/ \E p \in Pockets : PocketStep(p) \/ \E h \in Handlers : Deliver(h, p) \/ BeginVerify(h, p)
    \/ \E w \in Workers : Ask(w) \/ CreditStep(w) \/ Fails(w)
    \/ SweepStep \/ Crash \/ Tick \/ Stabilise

Spec == Init /\ [][Next]_vars

-----------------------------------------------------------------------------
(* Fairness.  Failures come to an end; then handlers and the sweeper go    *)
(* on, the queued link is minted, time passes, and the provider redelivers *)
(* what was not answered.                                                  *)

Fairness ==
    /\ WF_vars(Stabilise) /\ WF_vars(Tick)
    /\ \A w \in Workers : WF_vars(Ask(w) \/ CreditStep(w))
    /\ WF_vars(ListAwaiting \/ VerifyNext \/ EndVerification \/ EndTick)
    /\ \A p \in Pockets : SF_vars(\E h \in Handlers : Deliver(h, p))

FairSpec == Spec /\ Fairness

-----------------------------------------------------------------------------
(* Properties. *)

TypeOK ==
    /\ state \in [Pockets -> States]
    /\ deadline \in [Pockets -> Nat]
    /\ link \in [Pockets -> {"none", "minting", "stored"}]
    /\ paid \in [Pockets -> Payments]
    /\ notified \in [Pockets -> BOOLEAN]
    /\ processed \in [Pockets -> BOOLEAN]
    /\ txn \in [Pockets -> Sources \cup {"none"}]
    /\ worker \in [Workers -> WorkerStates]
    /\ \A w \in Workers :
          worker[w].pc \in {"ask", "credit", "record", "mark"} => worker[w].pocket \in Pockets
    /\ clock \in Nat
    /\ stable \in BOOLEAN

\* IngestGatewayEvent: an event is stamped only when its payment is on the
\* pocket, so what misses its pocket is kept for the operator.
ProcessedMeansCredited ==
    \A p \in Pockets : processed[p] => state[p] = "FUNDED" /\ txn[p] # "none"

\* What a row tells of the payment,
RowGrounded(p) ==
    /\ state[p] = "FUNDED" => paid[p] \in Completes
    /\ txn[p] # "none" => state[p] = "FUNDED"
    /\ link[p] # "none" \/ paid[p] # "none" => state[p] # "DRAFT"
    /\ notified[p] => paid[p] # "none"
    /\ processed[p] => txn[p] # "none"

\* and what a worker may rest on between two statements, whatever others do.
WorkerLicensed(w) ==
    LET me == worker[w] IN
    /\ me.pc = "credit" => paid[me.pocket] \in Completes \/ Underpaid(w)
    /\ me.pc = "record" => state[me.pocket] = "FUNDED"
    /\ me.pc = "mark" => txn[me.pocket] # "none"

\* creditFunding, "shared by the webhook ingester and the pull-side verifier":
\* the inductive invariant of its callers racing on one pocket.
CreditPath ==
    /\ \A p \in Pockets : RowGrounded(p)
    /\ \A w \in Workers : WorkerLicensed(w)

\* Funding implements the promise of module Collection; in full is what the
\* provider takes for it.
MoneyBar ==
    [p \in Pockets |->
        IF state[p] = "FUNDED" THEN "credited"
        ELSE IF state[p] \in {"EXPIRED", "CANCELLED"}
             THEN IF paid[p] \in Completes THEN "stranded" ELSE "closed"
             ELSE IF paid[p] \in Completes THEN "received" ELSE "awaited"]

C == INSTANCE Collection WITH money <- MoneyBar, receipt <- txn, Receipts <- Sources

CollectionSpec == C!Spec

Closed(p) == state[p] \in {"EXPIRED", "CANCELLED"}

\* IngestGatewayEvent: a payment in full that is notified ends up credited and
\* recorded, through any crashes, unless its pocket was closed.  It rests on the
\* provider's redelivery alone.
NotifiedIsCredited ==
    \A p \in Pockets :
        (paid[p] \in InFull /\ notified[p]) ~>
            (Closed(p) \/ (state[p] = "FUNDED" /\ txn[p] # "none"))

\* Fewer than VerifyLimit older pockets are still open, so that whichever of
\* them await their payment, the listing comes to p.
WithinLimit(p) ==
    Cardinality({q \in Pockets : q < p /\ state[q] \in {"DRAFT", "CREATED"}}) < VerifyLimit

\* docs/API.md: "a payment confirms even when no webhook is configured or a
\* notification is lost".  SweepPendingFundingVerification credits a payment in
\* full of a pocket whose window stays open, if its listing comes to it and the
\* provider's lookup tells the truth.
PolledIsCredited ==
    \A p \in Pockets :
        (/\ paid[p] \in InFull /\ state[p] = "CREATED" /\ deadline[p] > MaxTime
         /\ WithinLimit(p)) ~>
            (Closed(p) \/ state[p] = "FUNDED")

\* docs/API.md, "both routes and the webhook converge": either way to the credit
\* is enough, and neither gets in the other's way.
PaymentIsCredited == NotifiedIsCredited /\ PolledIsCredited

-----------------------------------------------------------------------------
(* What a document or a comment says of the code, and the code does not do. *)

\* docs/API.md: #3 is "Funding window lapsed unpaid", and "a payment confirms
\* even when ... a notification is lost": a payment made in time is not expired,
\* at least while nothing fails.
ExpiresOnlyUnpaid ==
    [][\A p \in Pockets : Expire(p) /\ stable => paid[p] # "full"]_vars

=============================================================================
