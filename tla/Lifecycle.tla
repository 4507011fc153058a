----------------------------- MODULE Lifecycle ------------------------------
(***************************************************************************)
(* One pocket under the single write path (backend/internal/store) and the *)
(* application handlers that drive it (backend/internal/pocketapp).        *)
(*                                                                         *)
(* A database transaction is one step: it locks the row, runs the domain   *)
(* guard, writes the snapshot, appends one audit row and records legs and  *)
(* dispute.  What a handler reads before its transaction (the clock, and   *)
(* for Cancel the state its role check looked at) is kept in the process   *)
(* and may be stale when the transaction runs.  Effects run after commit   *)
(* and live only in memory.                                                *)
(***************************************************************************)
EXTENDS Pocket, Sequences, FiniteSets

CONSTANTS
    TermsSet,     \* the terms a pocket may have been agreed on
    Requests,     \* concurrent HTTP or webhook handlers of this pocket
    MaxTime       \* bound on the clock

ASSUME LifecycleAssumption ==
    /\ TermsSet \subseteq {t \in Terms : ValidTerms(t)}
    /\ MaxTime \in Nat

VARIABLES
    terms,        \* the agreed terms: columns that never change after acceptance
    pocket,       \* the mutable snapshot columns of the row
    version,      \* the row's optimistic version
    events,       \* pocket_events of this pocket, oldest first
    legs,         \* settlements rows of this pocket
    dispute,      \* the disputes row of this pocket
    attested,     \* buyer_nonreceipt_attested_at IS NOT NULL
    codeStored,   \* release_code_hash IS NOT NULL
    strikes,      \* users.strikes added through this pocket, by role
    todo,         \* effects committed but not yet executed, in memory
    req,          \* what each handler holds between its steps
    swept,        \* the sweeper's captured now, NoTime between claims
    clock,
    stable        \* no crash from here on

dbVars == <<terms, pocket, version, events, legs, dispute, attested, codeStored, strikes>>
vars == <<terms, pocket, version, events, legs, dispute, attested, codeStored,
          strikes, todo, req, swept, clock, stable>>

\* The audit actor.  "acceptor" stands for the role that happened to accept last.
Actors == Roles \cup {"system", "admin", "acceptor"}

EventRows == [from : States \cup {"DRAFT"}, to : States \cup {"DRAFT"},
              kind : EventKinds \cup {"created", "converted_to_brokered"}, actor : Actors]

NoDispute == [state |-> "none", class |-> "none", resolution |-> "none"]
Disputes == [state : {"none", "open", "resolved"},
             class : {"none", "not_delivered", "not_as_described"},
             resolution : {"none", "refund", "payout"}]

\* Between its steps a handler is about to commit ("commit") or has had its
\* code accepted and looks at instant settlement ("settle"); "refused" is a
\* handler that answered an error although its code had been accepted.
Ops == {"cancel", "funding_confirmed", "code_accepted", "code_rejected", "buyer_report_issue"}
Handlers == [pc : {"idle", "commit", "settle", "refused"}, op : Ops \cup {"none"},
             role : Actors, now : Times]
IdleHandler == [pc |-> "idle", op |-> "none", role |-> "system", now |-> NoTime]

-----------------------------------------------------------------------------
(* A draft that every participant is about to have accepted. *)

\* ConvertToBrokered leaves a row of the log while the pocket is still a draft,
\* and counts the version; what else happens to a draft is in Acceptance.
Conversion == [from |-> "DRAFT", to |-> "DRAFT", kind |-> "converted_to_brokered",
               actor |-> "broker"]

DraftLogs(t) == {<<>>} \cup (IF t.structure = "brokered" THEN {<<Conversion>>} ELSE {})

Init ==
    /\ terms \in TermsSet
    /\ pocket = [state |-> "DRAFT", attempts |-> 0, locked |-> FALSE,
                 fundingExpiresAt |-> NoTime, deliveryDeadline |-> NoTime,
                 settleAfter |-> NoTime, graceDeadline |-> NoTime]
    /\ events \in DraftLogs(terms)
    /\ version = Len(events)
    /\ legs = {}
    /\ dispute = NoDispute
    /\ attested = FALSE
    /\ codeStored = FALSE
    /\ strikes = [r \in {"buyer", "vendor"} |-> 0]
    /\ todo = {}
    /\ req = [r \in Requests |-> IdleHandler]
    /\ swept = NoTime
    /\ clock = 0
    /\ stable = FALSE

\* Bug: a row is written only when the state differs.
AuditOnlyMoves(from, to, kind, actor) ==
    events' = IF from = to THEN events
              ELSE Append(events, [from |-> from, to |-> to, kind |-> kind, actor |-> actor])

\* insertEventTx
Audit(from, to, kind, actor) ==
    events' = Append(events, [from |-> from, to |-> to, kind |-> kind, actor |-> actor])

\* Bug: a dispute the admin decides for the vendor stays open.
RecordDisputeRefundOnly(from, to, ev) ==
    dispute' =
        IF to = "DISPUTED" /\ from # "DISPUTED" /\ dispute.state = "none"
        THEN [state |-> "open", class |-> DisputeClassOf(ev), resolution |-> "none"]
        ELSE IF from = "DISPUTED" /\ to = "REFUNDED" /\ dispute.state = "open"
        THEN [dispute EXCEPT !.state = "resolved", !.resolution = "refund"]
        ELSE dispute

\* recordDisputeTx: open a row on entering DISPUTED, resolve it on leaving.
RecordDispute(from, to, ev) ==
    dispute' =
        IF to = "DISPUTED" /\ from # "DISPUTED" /\ dispute.state = "none"
        THEN [state |-> "open", class |-> DisputeClassOf(ev), resolution |-> "none"]
        ELSE IF from = "DISPUTED" /\ to \in {"REFUNDED", "SETTLED"} /\ dispute.state = "open"
        THEN [dispute EXCEPT !.state = "resolved",
                             !.resolution = IF to = "SETTLED" THEN "payout" ELSE "refund"]
        ELSE dispute

\* applyTransitionTx inside its transaction, and applyOutcome's effects queued.
Apply(ev, now, actor) ==
    \E to \in States :
        /\ Allows(pocket, now, ev, to)
        /\ pocket' = NextSnapshot(terms, pocket, now, ev, to)
        /\ version' = version + 1
        /\ Audit(pocket.state, to, ev, actor)
        /\ legs' = legs \cup LegsOf(terms, ev)
        /\ RecordDispute(pocket.state, to, ev)
        /\ todo' = todo \cup EffectsOf(ev)
        /\ UNCHANGED <<terms, attested, codeStored, strikes, clock, stable>>

\* The guard would refuse ev: the transaction rolls back.
Refused(ev, now) == ~ \E to \in States : Allows(pocket, now, ev, to)

Rollback == UNCHANGED <<dbVars, todo, clock, stable>>

-----------------------------------------------------------------------------
(* Acceptance completes: transition #1 (store.Accept, all accepted), or the *)
(* draft is cancelled directly (store.Cancel on a draft).                   *)

Complete ==
    /\ pocket.state = "DRAFT"
    /\ pocket' = NewPocket(terms, clock)
    /\ version' = version + 1
    /\ Audit("DRAFT", "CREATED", "created", "acceptor")
    /\ UNCHANGED <<terms, legs, dispute, attested, codeStored, strikes, todo, req,
                   swept, clock, stable>>

CancelDraft(actor) ==
    /\ pocket' = [pocket EXCEPT !.state = "CANCELLED"]
    /\ version' = version + 1
    /\ Audit("DRAFT", "CANCELLED", "cancel", actor)
    /\ UNCHANGED <<terms, legs, dispute, attested, codeStored, strikes, todo, clock, stable>>

-----------------------------------------------------------------------------
(* Handlers that read something before their transaction. *)

\* The operations whose outcome depends on the clock they captured.
TimedOps == {"funding_confirmed", "code_accepted", "buyer_report_issue"}

Begin(r, op, role) ==
    /\ req[r].pc = "idle"
    /\ req' = [req EXCEPT ![r] = [pc |-> "commit", op |-> op, role |-> role,
                                  now |-> IF op \in TimedOps THEN clock ELSE NoTime]]
    /\ UNCHANGED <<dbVars, todo, swept, clock, stable>>

\* App.Cancel: the role check looks at an unlocked read of the state.
BeginCancel(r) ==
    \E role \in Roles :
        /\ pocket.state = "FUNDED" => role = "vendor"
        /\ role = "broker" => terms.structure = "brokered"
        /\ Begin(r, "cancel", role)

\* creditFunding (webhook, verifier) and SimulateFunding: the clock is read
\* before the transaction.
BeginFunding(r) == Begin(r, "funding_confirmed", "system")

\* Bug: an unset hash is compared like any other.
EnterCodeUnissued(r) ==
    \E op \in {"code_accepted", "code_rejected"} : Begin(r, op, "vendor")

\* App.EnterCode by the vendor: the stored hash decides the event to commit.
BeginEnterCode(r) ==
    /\ codeStored
    /\ \E op \in {"code_accepted", "code_rejected"} : Begin(r, op, "vendor")

\* App.ReportIssue by the buyer.
BeginReportIssue(r) == Begin(r, "buyer_report_issue", "buyer")

Finish(r) == req' = [req EXCEPT ![r] = IdleHandler]

\* Store.Cancel: the branch is chosen under the row lock.
CommitCancel(r) ==
    /\ req[r].pc = "commit" /\ req[r].op = "cancel"
    /\ \/ pocket.state = "DRAFT" /\ CancelDraft(req[r].role)
       \/ pocket.state = "CREATED" /\ Apply("cancel", req[r].now, req[r].role)
       \/ pocket.state = "FUNDED" /\ Apply("vendor_cancel", req[r].now, req[r].role)
       \/ pocket.state \notin {"DRAFT", "CREATED", "FUNDED"} /\ Rollback
    /\ Finish(r)
    /\ UNCHANGED swept

\* RunTransition with the event and the clock the handler captured.  An
\* accepted code continues to the instant-settlement check.
CommitEvent(r) ==
    /\ req[r].pc = "commit" /\ req[r].op # "cancel"
    /\ \/ /\ Apply(req[r].op, req[r].now, req[r].role)
          /\ IF req[r].op = "code_accepted"
             THEN req' = [req EXCEPT ![r].pc = "settle",
                                     ![r].now = req[r].now + terms.inspection]
             ELSE Finish(r)
       \/ Refused(req[r].op, req[r].now) /\ Rollback /\ Finish(r)
    /\ UNCHANGED swept

\* acceptCode's second half: settle at once when the returned outcome is due
\* (its settle_after is kept in req[r].now), else answer "accepted".  Losing
\* the pocket in between is answered with the guard's error.
SettleAtOnce(r) ==
    /\ req[r].pc = "settle"
    /\ \/ clock < req[r].now /\ Rollback /\ Finish(r)
       \/ clock >= req[r].now /\ Apply("settle_due", clock, "vendor") /\ Finish(r)
       \/ /\ clock >= req[r].now /\ Refused("settle_due", clock) /\ Rollback
          /\ req' = [req EXCEPT ![r].pc = "refused"]
    /\ UNCHANGED swept

AnswerRefused(r) ==
    /\ req[r].pc = "refused"
    /\ Finish(r)
    /\ UNCHANGED <<dbVars, todo, swept, clock, stable>>

-----------------------------------------------------------------------------
(* Handlers whose event reads neither the clock nor an earlier state. *)

Handle(ev, actor) == Apply(ev, clock, actor) /\ UNCHANGED <<req, swept>>

ConfirmDispatchFailure == Handle("refund_frozen", "vendor")
OpenFrozenDispute      == Handle("frozen_dispute", "buyer")
Concede                == Handle("vendor_concede", "vendor")
ForceRefund            == Handle("admin_force_refund", "admin")
ForcePayout ==
    \/ Handle("admin_force_payout", "admin")
    \/ Handle("admin_force_payout_bad_faith", "admin")

\* Store.AttestNonReceipt: one autocommitted update, no version, no audit row.
AttestNonReceipt ==
    /\ pocket.state = "FROZEN"
    /\ attested' = TRUE
    /\ UNCHANGED <<terms, pocket, version, events, legs, dispute, codeStored, strikes,
                   todo, req, swept, clock, stable>>

-----------------------------------------------------------------------------
(* Post-commit effects (executeEffects): run, or lost to an error or crash. *)

SanctionedRole(e) == IF e = "sanction_vendor" THEN "vendor" ELSE "buyer"

\* Bug: a sanction whose answer was lost is run again.
RunEffectAgain(e) ==
    /\ e \in todo
    /\ UNCHANGED todo
    /\ codeStored' = (codeStored \/ e = "release_code")
    /\ strikes' = IF e = "release_code" THEN strikes
                  ELSE [strikes EXCEPT ![SanctionedRole(e)] = @ + 1]
    /\ UNCHANGED <<terms, pocket, version, events, legs, dispute, attested, req, swept,
                   clock, stable>>

RunEffect(e) ==
    /\ e \in todo
    /\ todo' = todo \ {e}
    /\ codeStored' = (codeStored \/ e = "release_code")
    /\ strikes' = IF e = "release_code" THEN strikes
                  ELSE [strikes EXCEPT ![SanctionedRole(e)] = @ + 1]
    /\ UNCHANGED <<terms, pocket, version, events, legs, dispute, attested, req, swept,
                   clock, stable>>

\* executeEffects logs an effect's error and goes on.
LoseEffect(e) ==
    /\ e \in todo
    /\ todo' = todo \ {e}
    /\ UNCHANGED <<dbVars, req, swept, clock, stable>>

\* The process dies: rows survive, everything in memory is gone.
Crash ==
    /\ ~stable
    /\ req' = [r \in Requests |-> IdleHandler]
    /\ todo' = {}
    /\ swept' = NoTime
    /\ UNCHANGED <<dbVars, clock, stable>>

-----------------------------------------------------------------------------
(* The sweeper: each claim reads the clock, then selects and advances a due *)
(* row in one transaction (sweepOne).  The state decides which rule fits.   *)

SweepRead ==
    /\ swept = NoTime
    /\ swept' = clock
    /\ UNCHANGED <<dbVars, todo, req, clock, stable>>

\* Bug: a rule is left out of the tick.
RulesWithoutRefund == {"funding_expired", "delivery_deadline_lapsed", "settle_due"}

\* What each rule's WHERE clause selects on: the state and the deadline column.
SweepRules == {"funding_expired", "delivery_deadline_lapsed", "refund_frozen", "settle_due"}

SweptState(ev) ==
    CASE ev = "funding_expired"          -> "CREATED"
      [] ev = "delivery_deadline_lapsed" -> "FUNDED"
      [] ev = "refund_frozen"            -> "FROZEN"
      [] ev = "settle_due"               -> "DELIVERED_PENDING"

DeadlineOf(ev) ==
    CASE ev = "funding_expired"          -> pocket.fundingExpiresAt
      [] ev = "delivery_deadline_lapsed" -> pocket.deliveryDeadline
      [] ev = "refund_frozen"            -> pocket.graceDeadline
      [] ev = "settle_due"               -> pocket.settleAfter

\* Bug: the refund without the attestation.
DueOnTimerAlone(ev, now) ==
    pocket.state = SweptState(ev) /\ DeadlineOf(ev) # NoTime /\ DeadlineOf(ev) <= now

Due(ev, now) ==
    /\ pocket.state = SweptState(ev)
    /\ DeadlineOf(ev) # NoTime /\ DeadlineOf(ev) <= now
    /\ ev = "refund_frozen" => attested

Sweep ==
    /\ swept # NoTime
    /\ \E ev \in SweepRules : Due(ev, swept) /\ Apply(ev, swept, "system")
    /\ swept' = NoTime
    /\ UNCHANGED req

\* Nothing due, or the row is skipped because a handler's transaction holds it
\* (FOR UPDATE SKIP LOCKED).
SweepPassesBy ==
    /\ swept # NoTime
    /\ \/ \A ev \in SweepRules : ~Due(ev, swept)
       \/ \E r \in Requests : req[r].pc \in {"commit", "settle"}
    /\ swept' = NoTime
    /\ UNCHANGED <<dbVars, todo, req, clock, stable>>

\* No deadline runs on a draft: the clock starts with the acceptance.
Tick ==
    /\ clock < MaxTime
    /\ pocket.state # "DRAFT"
    /\ clock' = clock + 1
    /\ UNCHANGED <<dbVars, todo, req, swept, stable>>

-----------------------------------------------------------------------------

HandlerStep(r) == CommitCancel(r) \/ CommitEvent(r) \/ SettleAtOnce(r) \/ AnswerRefused(r)

Next ==
    \/ Complete
    \/ \E r \in Requests :
         \/ BeginCancel(r) \/ BeginFunding(r) \/ BeginEnterCode(r) \/ BeginReportIssue(r)
         \/ CommitCancel(r) \/ CommitEvent(r) \/ SettleAtOnce(r) \/ AnswerRefused(r)
    \/ ConfirmDispatchFailure \/ OpenFrozenDispute \/ Concede \/ ForceRefund \/ ForcePayout
    \/ AttestNonReceipt
    \/ \E e \in EffectKinds : RunEffect(e) \/ LoseEffect(e)
    \/ Crash
    \/ SweepRead \/ Sweep \/ SweepPassesBy
    \/ Tick

Spec == Init /\ [][Next]_vars

\* Crashes come to an end, in the fair runs only.
Stabilise == stable' = TRUE /\ UNCHANGED <<dbVars, todo, req, swept, clock>>

(***************************************************************************)
(* Fairness the program has: time passes, a started handler and the        *)
(* ticking sweeper go on, a queued effect is run (or fails), and the       *)
(* process stops crashing at some point.  A row is not locked at every     *)
(* claim of the sweeper, so Sweep is strongly fair.  Nobody is obliged to  *)
(* start a request.                                                        *)
(***************************************************************************)
Fairness ==
    /\ WF_vars(Tick)
    /\ WF_vars(SweepRead) /\ WF_vars(SweepPassesBy) /\ SF_vars(Sweep)
    /\ WF_vars(Stabilise)
    /\ \A r \in Requests : WF_vars(HandlerStep(r))
    /\ \A e \in EffectKinds : WF_vars(RunEffect(e))

FairSpec == Init /\ [][Next \/ Stabilise]_vars /\ Fairness

-----------------------------------------------------------------------------
(* Properties *)

\* Every column and every process stays in its domain; the log has a row.
TypeOK ==
    /\ terms \in TermsSet
    /\ pocket \in Snapshots
    /\ version \in Nat
    /\ events \in Seq(EventRows)
    /\ legs \subseteq Legs
    /\ dispute \in Disputes
    /\ attested \in BOOLEAN /\ codeStored \in BOOLEAN
    /\ strikes \in [{"buyer", "vendor"} -> Nat]
    /\ todo \subseteq EffectKinds
    /\ req \in [Requests -> Handlers]
    /\ swept \in Times /\ clock \in Nat /\ stable \in BOOLEAN

\* recordSettlementLegsTx: legs exist exactly when the pocket is SETTLED or
\* REFUNDED, and they return the buyer's total to the buyer or pay the vendor
\* and the broker their shares, never some of both.
CustodyConserved ==
    /\ pocket.state = "REFUNDED" =>
           legs = {[direction |-> "refund", role |-> "buyer",
                    amount |-> terms.amount + terms.commission + terms.premium]}
    /\ pocket.state = "SETTLED" =>
           /\ \A l \in legs : l.direction = "payout" /\ l.role \in {"vendor", "broker"}
           /\ \A l \in legs : l.amount = IF l.role = "vendor" THEN terms.amount
                                                              ELSE terms.commission
           /\ \E l \in legs : l.role = "vendor"
           /\ terms.commission > 0 => \E l \in legs : l.role = "broker"
    /\ pocket.state \notin {"SETTLED", "REFUNDED"} => legs = {}

\* insertEventTx, "exactly once per state change": the audit log is a gap-free
\* chain from DRAFT to the row's state, one row per version, whatever
\* interleaving of handlers and sweeper wrote it.
AuditLogFaithful ==
    /\ Len(events) = version
    /\ \A i \in 1..Len(events) :
           events[i].from = IF i = 1 THEN "DRAFT" ELSE events[i-1].to
    /\ pocket.state = IF events = <<>> THEN "DRAFT" ELSE events[Len(events)].to

\* recordDisputeTx: the dispute row is open exactly while the pocket is
\* DISPUTED, and its resolution names the side the money went to.
DisputeInStep ==
    /\ dispute.state = "open" <=> pocket.state = "DISPUTED"
    /\ dispute.state = "resolved" <=> dispute.resolution # "none"
    /\ dispute.resolution = "refund" => pocket.state = "REFUNDED"
    /\ dispute.resolution = "payout" => pocket.state = "SETTLED"
    /\ dispute.class = "not_as_described" => pocket.settleAfter # NoTime

\* What the columns say of a pocket by its state: settle_after is the mark of a
\* delivery, and a dispute row that of a pocket that is or was DISPUTED.  With
\* the two invariants above it is inductive.
RowsInStep ==
    /\ pocket.state \in {"DRAFT", "CREATED", "FUNDED", "FROZEN"} => pocket.settleAfter = NoTime
    /\ pocket.state = "DELIVERED_PENDING" => pocket.settleAfter # NoTime
    /\ pocket.state \notin {"DISPUTED", "REFUNDED", "SETTLED"} => dispute.state = "none"
    /\ dispute.state = "none" => dispute = NoDispute
    /\ \A r \in Requests : req[r].pc = "commit" /\ req[r].op = "code_accepted" => req[r].now # NoTime

Logged(kind) == \E i \in 1..Len(events) : events[i].kind = kind

\* "No refund ever fires on a timer alone": a refund the sweeper committed had
\* the buyer's attestation and a lapsed grace period; any other was committed
\* by a party or an admin.
RefundHasHumanCause ==
    pocket.state = "REFUNDED" =>
        \/ events[Len(events)].actor # "system"
        \/ /\ events[Len(events)].kind = "refund_frozen"
           /\ attested
           /\ pocket.graceDeadline # NoTime /\ pocket.graceDeadline <= clock

\* Row #11 or row #15 of the table: a settled pocket had its release code entered
\* (with a code that had been issued) or was disputed and paid out by an admin.
\* The second need not have seen a code at all: a pocket frozen at its delivery
\* deadline is disputed and paid out without one, although docs/API.md and
\* pocket.go say that settlement to the vendor occurs only from DELIVERED_PENDING.
PayoutHasHandoffOrArbitration ==
    /\ pocket.state = "SETTLED" =>
           Logged("code_accepted") \/ dispute.resolution = "payout"
    /\ Logged("code_accepted") => codeStored

\* RegisterFailure under concurrent handlers: the counter is the number of
\* rejected entries on record, it never passes MaxAttempts, and no code is
\* accepted once MaxAttempts entries failed.
LockoutHolds ==
    LET rejected == {i \in 1..Len(events) : events[i].kind = "code_rejected"}
    IN  /\ pocket.attempts = Cardinality(rejected)
        /\ pocket.attempts <= MaxAttempts
        /\ pocket.locked <=> pocket.attempts = MaxAttempts
        /\ \A i \in 1..Len(events) :
               events[i].kind = "code_accepted" => pocket.attempts < MaxAttempts

\* A strike needs the arbitration that calls for it, and is given once even
\* though RecordSanction itself is not idempotent.
SanctionsAreEarned ==
    /\ strikes["vendor"] > 0 => Logged("admin_force_refund")
    /\ strikes["buyer"] > 0 => Logged("admin_force_payout_bad_faith")
    /\ strikes["vendor"] + strikes["buyer"] <= 1

\* "The now used for the predicate is the same now handed to the domain guard":
\* a row that sweepOne claims is never refused by the guard (which would abort
\* the rule's drain on that row at every tick).
SweepClaimsSucceed ==
    swept # NoTime =>
        \A ev \in SweepRules : Due(ev, swept) => ~Refused(ev, swept)

\* ErrTerminal: nothing of a closed pocket changes, neither its money rows nor
\* its log, even for a handler that read it before it closed.
TerminalIsFinal ==
    [][pocket.state \in Terminal =>
           UNCHANGED <<pocket, version, events, legs, dispute>>]_vars

\* The clock rules fire no earlier than their deadline by the real clock, even
\* though each uses a clock read before its transaction; and a report that wins
\* the pocket was made before settlement was due, by the clock its handler read.
TimersNeverFireEarly ==
    [][/\ (pocket.state = "CREATED" /\ pocket'.state = "EXPIRED")
              => pocket.fundingExpiresAt <= clock
       /\ (pocket.state = "FUNDED" /\ pocket'.state = "FROZEN")
              => pocket.deliveryDeadline <= clock
       /\ (pocket.state = "DELIVERED_PENDING" /\ pocket'.state = "SETTLED")
              => pocket.settleAfter <= clock
       /\ (pocket.state = "FROZEN" /\ pocket'.state = "REFUNDED" /\ swept # swept')
              => attested /\ pocket.graceDeadline <= clock
       /\ (pocket.state = "DELIVERED_PENDING" /\ pocket'.state = "DISPUTED")
              => \E r \in Requests :
                    /\ req[r].op = "buyer_report_issue" /\ req'[r] = IdleHandler
                    /\ req[r].now < pocket.settleAfter]_vars

(***************************************************************************)
(* The lifecycle implements the escrow: custody is read off the legs, the  *)
(* ground off the dispute row and the settle_after column.                 *)
(***************************************************************************)
CustodyBar ==
    IF \E l \in legs : l.direction = "payout" THEN "released"
    ELSE IF \E l \in legs : l.direction = "refund" THEN "returned"
    ELSE IF pocket.state \in {"DRAFT", "CREATED"} THEN "none"
    ELSE IF pocket.state \in {"CANCELLED", "EXPIRED"} THEN "void"
    ELSE "held"

GroundBar ==
    IF dispute.state # "none" THEN "contested"
    ELSE IF pocket.settleAfter # NoTime THEN "delivered" ELSE "none"

E == INSTANCE Escrow WITH custody <- CustodyBar, ground <- GroundBar

EscrowSpec == E!Spec

\* Liveness: a pocket that only waits for a timer does not wait for ever.  The
\* bound on the clock excuses deadlines beyond it.
CreatedEnds ==
    (pocket.state = "CREATED" /\ pocket.fundingExpiresAt <= MaxTime)
        ~> pocket.state # "CREATED"
FundedEnds ==
    (pocket.state = "FUNDED" /\ pocket.deliveryDeadline <= MaxTime)
        ~> pocket.state # "FUNDED"
AttestedFreezeEnds ==
    (pocket.state = "FROZEN" /\ attested /\ pocket.graceDeadline <= MaxTime)
        ~> pocket.state # "FROZEN"
DeliveredEnds ==
    (pocket.state = "DELIVERED_PENDING" /\ pocket.settleAfter <= MaxTime)
        ~> pocket.state # "DELIVERED_PENDING"

\* The four clock rules of the sweeper take up every pocket that waits for one.
TimersAreKept == CreatedEnds /\ FundedEnds /\ AttestedFreezeEnds /\ DeliveredEnds

-----------------------------------------------------------------------------
(* What a document or a comment says of the code, and the code does not do. *)

\* Cancel: "A FUNDED pocket may only be cancelled (refunded, #5) by the vendor".
OnlyVendorRefundsFunded ==
    [][(pocket.state = "FUNDED" /\ pocket'.state = "REFUNDED")
           => events'[Len(events')].actor = "vendor"]_vars

\* applyOutcome: "the sweeper re-derives and retries anything left unfinished
\* by a crash", so a funded pocket gets its release code unless it closes.
CodeEventuallyIssued ==
    pocket.state = "FUNDED" ~> (codeStored \/ pocket.state \in Terminal)

=============================================================================
