------------------------------- MODULE Pocket -------------------------------
(***************************************************************************)
(* The pure escrow domain (backend/internal/pocket): the states of one     *)
(* pocket, the transition table #1..#15, the guards, the next snapshot and *)
(* the money a transition commits to.  Like the Go package it touches no   *)
(* clock and no storage: every operator takes the terms, the snapshot and  *)
(* the time at which the caller read its clock.                            *)
(***************************************************************************)
EXTENDS Integers

CONSTANTS
    MaxAttempts,   \* releasecode.MaxAttempts: wrong codes before the lock (5)
    GracePeriod    \* Pocket.GracePeriod, a platform policy

ASSUME PocketAssumption ==
    /\ MaxAttempts \in Nat \ {0}
    /\ GracePeriod \in Nat

-----------------------------------------------------------------------------
(* Vocabulary *)

Terminal == {"SETTLED", "REFUNDED", "CANCELLED", "EXPIRED"}
LiveStates == {"CREATED", "FUNDED", "DELIVERED_PENDING", "DISPUTED", "FROZEN"}
States == LiveStates \cup Terminal

Roles == {"buyer", "vendor", "broker"}

\* The zero time.Time: a deadline that has not been set.
NoTime == -1
Times == Nat \cup {NoTime}

(***************************************************************************)
(* The terms a pocket is built from, and Spec.validate.  The creator's     *)
(* role is fixed by the structure and plays no part after construction.    *)
(***************************************************************************)
Terms == [structure : {"p2p", "brokered"}, mode : {"instant", "cooldown"},
          amount : Nat, commission : Nat, premium : Nat,
          inspection : Nat, delivery : Nat, ttl : Nat]

ValidTerms(t) ==
    /\ t.amount > 0
    /\ t.structure = "p2p" => t.commission = 0
    /\ t.mode = "instant" <=> t.inspection = 0
    /\ t.delivery > 0
    /\ t.ttl > 0

\* What the buyer funds, and what the vendor and the broker are paid from it.
BuyerTotal(t) == t.amount + t.commission + t.premium

PayoutLegs(t) ==
    {[direction |-> "payout", role |-> "vendor", amount |-> t.amount]} \cup
    (IF t.structure = "brokered" /\ t.commission > 0
     THEN {[direction |-> "payout", role |-> "broker", amount |-> t.commission]}
     ELSE {})

RefundLegs(t) ==
    {[direction |-> "refund", role |-> "buyer", amount |-> BuyerTotal(t)]}

Legs == [direction : {"payout", "refund"}, role : Roles, amount : Nat]

-----------------------------------------------------------------------------
(* The transition table: <<from, event, to>>.  The two values of           *)
(* Event.BadFaith on an admin payout are two events here.                  *)

LegalMoves ==
    {<<"CREATED",           "funding_confirmed",            "FUNDED">>,
     <<"CREATED",           "funding_expired",              "EXPIRED">>,
     <<"CREATED",           "cancel",                       "CANCELLED">>,
     <<"FUNDED",            "vendor_cancel",                "REFUNDED">>,
     <<"FUNDED",            "code_accepted",                "DELIVERED_PENDING">>,
     <<"FROZEN",            "code_accepted",                "DELIVERED_PENDING">>,
     <<"FUNDED",            "code_rejected",                "FUNDED">>,
     <<"FROZEN",            "code_rejected",                "FROZEN">>,
     <<"FUNDED",            "delivery_deadline_lapsed",     "FROZEN">>,
     <<"FROZEN",            "refund_frozen",                "REFUNDED">>,
     <<"FROZEN",            "frozen_dispute",               "DISPUTED">>,
     <<"DELIVERED_PENDING", "settle_due",                   "SETTLED">>,
     <<"DELIVERED_PENDING", "buyer_report_issue",           "DISPUTED">>,
     <<"DISPUTED",          "vendor_concede",               "REFUNDED">>,
     <<"DISPUTED",          "admin_force_refund",           "REFUNDED">>,
     <<"DISPUTED",          "admin_force_payout",           "SETTLED">>,
     <<"DISPUTED",          "admin_force_payout_bad_faith", "SETTLED">>}

\* Bugs the runs must catch: a late payment revives an expired pocket; the
\* dispatch-failure refund is accepted after delivery.
TableRevivingExpired == LegalMoves \cup {<<"EXPIRED", "funding_confirmed", "FUNDED">>}
TableRefundingDelivered ==
    LegalMoves \cup {<<"DELIVERED_PENDING", "refund_frozen", "REFUNDED">>}

TransitionTable == LegalMoves

EventKinds ==
    {"funding_confirmed", "funding_expired", "cancel", "vendor_cancel",
     "code_accepted", "code_rejected", "delivery_deadline_lapsed",
     "refund_frozen", "frozen_dispute", "settle_due", "buyer_report_issue",
     "vendor_concede", "admin_force_refund", "admin_force_payout",
     "admin_force_payout_bad_faith"}

(***************************************************************************)
(* The snapshot a transition reads and returns: the mutable fields of the  *)
(* Pocket struct.  DisputeClass is an output of the two disputing events   *)
(* only (a reload from the store leaves it empty).                         *)
(***************************************************************************)
Snapshots == [state : States \cup {"DRAFT"}, attempts : Nat, locked : BOOLEAN,
              fundingExpiresAt : Times, deliveryDeadline : Times,
              settleAfter : Times, graceDeadline : Times]

\* pocket.New: the CREATED snapshot of a fully accepted draft.
NewPocket(t, now) ==
    [state |-> "CREATED", attempts |-> 0, locked |-> FALSE,
     fundingExpiresAt |-> now + t.ttl, deliveryDeadline |-> NoTime,
     settleAfter |-> NoTime, graceDeadline |-> NoTime]

\* Bug: the guard of settle_due is strict where the sweeper's query is not.
GuardStrictAtSettlement(p, now, ev) ==
    /\ ev = "funding_expired" =>
           p.fundingExpiresAt = NoTime \/ now >= p.fundingExpiresAt
    /\ ev = "delivery_deadline_lapsed" =>
           p.deliveryDeadline = NoTime \/ now >= p.deliveryDeadline
    /\ ev = "settle_due" => now > p.settleAfter
    /\ ev = "buyer_report_issue" => now < p.settleAfter
    /\ ev \in {"code_accepted", "code_rejected"} => ~p.locked

\* Bug: a report is taken after its inspection window.
GuardWithoutWindow(p, now, ev) ==
    /\ ev = "funding_expired" =>
           p.fundingExpiresAt = NoTime \/ now >= p.fundingExpiresAt
    /\ ev = "delivery_deadline_lapsed" =>
           p.deliveryDeadline = NoTime \/ now >= p.deliveryDeadline
    /\ ev = "settle_due" => now >= p.settleAfter
    /\ ev \in {"code_accepted", "code_rejected"} => ~p.locked

\* The guards beyond the source state: a timer that is not yet due, an
\* inspection window that has closed, a locked code.
GuardHolds(p, now, ev) ==
    /\ ev = "funding_expired" =>
           p.fundingExpiresAt = NoTime \/ now >= p.fundingExpiresAt
    /\ ev = "delivery_deadline_lapsed" =>
           p.deliveryDeadline = NoTime \/ now >= p.deliveryDeadline
    /\ ev = "settle_due" => now >= p.settleAfter
    /\ ev = "buyer_report_issue" => now < p.settleAfter
    /\ ev \in {"code_accepted", "code_rejected"} => ~p.locked

\* Pocket.Transition: ev takes p to state "to" at time now.
Allows(p, now, ev, to) ==
    /\ <<p.state, ev, to>> \in TransitionTable
    /\ GuardHolds(p, now, ev)

\* Bug: locks one failure too late.
RegisterFailureLate(attempts) ==
    [attempts |-> attempts + 1, locked |-> attempts + 1 > MaxAttempts]

\* releasecode.RegisterFailure on the stored counter.
RegisterFailure(attempts) ==
    [attempts |-> attempts + 1, locked |-> attempts + 1 >= MaxAttempts]

\* Outcome.Pocket: the snapshot after an allowed transition.
NextSnapshot(t, p, now, ev, to) ==
    [p EXCEPT
        !.state = to,
        !.deliveryDeadline = IF ev = "funding_confirmed" THEN now + t.delivery ELSE @,
        !.settleAfter      = IF ev = "code_accepted" THEN now + t.inspection ELSE @,
        !.graceDeadline    = IF ev = "code_accepted" THEN NoTime
                             ELSE IF ev = "delivery_deadline_lapsed" THEN now + GracePeriod
                             ELSE @,
        !.attempts = IF ev = "code_rejected" THEN RegisterFailure(@).attempts ELSE @,
        !.locked   = IF ev = "code_rejected"
                     THEN RegisterFailure(p.attempts).locked ELSE @]

\* The money effects: SchedulePayout and ExecuteRefund, by event.
\* Bug: a forced payout forgets its legs.
PayoutEventsSettleOnly == {"settle_due"}

PayoutEvents == {"settle_due", "admin_force_payout", "admin_force_payout_bad_faith"}
RefundEvents == {"vendor_cancel", "refund_frozen", "vendor_concede", "admin_force_refund"}

LegsOf(t, ev) ==
    (IF ev \in PayoutEvents THEN PayoutLegs(t) ELSE {}) \cup
    (IF ev \in RefundEvents THEN RefundLegs(t) ELSE {})

\* The effects that live only in the memory of the process that committed the
\* transition: the release code and the sanctions.
EffectKinds == {"release_code", "sanction_vendor", "sanction_buyer"}

EffectsOf(ev) ==
    {e \in EffectKinds :
        \/ e = "release_code" /\ ev = "funding_confirmed"
        \/ e = "sanction_vendor" /\ ev = "admin_force_refund"
        \/ e = "sanction_buyer" /\ ev = "admin_force_payout_bad_faith"}

\* Bug: the event's name is stored as the class.
DisputeClassRaw(ev) == ev

\* Outcome.Pocket.DisputeClass of the two events that open a dispute.
DisputeClassOf(ev) ==
    IF ev = "frozen_dispute" THEN "not_delivered" ELSE "not_as_described"

=============================================================================
