----------------------------- MODULE RateLimit ------------------------------
(***************************************************************************)
(* The token-bucket limiter in front of the API (ratelimit/ratelimit.go):  *)
(* a bucket per caller, refilled when it is next used, created full, and   *)
(* forgotten by a sweep once it must be full again.  Allow runs under the  *)
(* limiter's mutex and reads the clock there: it is one step.              *)
(*                                                                         *)
(* A tick is the time in which one unit refills; an event costs Cost       *)
(* units, so the smaller the tick, the larger Cost.                        *)
(***************************************************************************)
EXTENDS Integers

CONSTANTS
    Keys,      \* callers: client addresses
    NoKey,
    Cost,      \* ticks in which one event's worth refills: 1 / rate
    Burst,     \* burst
    Second,    \* ticks in a second
    Minute,    \* ticks in a minute
    MaxTime    \* bound on the clock

Full == Burst * Cost

\* The time to refill in whole seconds, as the sweep computes it.
WholeSeconds == (Full \div Second) * Second

\* What is taken of the configuration, at the head of every theorem.
RateLimitAssumption ==
    /\ NoKey \notin Keys
    /\ Cost \in Nat \ {0} /\ Burst \in Nat \ {0} /\ Second \in Nat \ {0}
    /\ Minute \in Nat /\ MaxTime \in Nat
    /\ WholeSeconds = Full \/ Full <= Minute

VARIABLES
    buckets,   \* each caller's bucket, or none
    sweepAt,   \* no sweep before this time
    clock,
    asked      \* the latest event and its answer

vars == <<buckets, sweepAt, clock, asked>>

NoBucket == [tokens |-> 0, last |-> -1]
Buckets == [tokens : 0..Full, last : Nat]
Present(k) == buckets[k] # NoBucket

Cap(units) == IF units > Full THEN Full ELSE units

Init ==
    /\ buckets = [k \in Keys |-> NoBucket]
    /\ sweepAt = 0
    /\ clock = 0
    /\ asked = [key |-> NoKey, answer |-> "none"]

-----------------------------------------------------------------------------

\* Bug: a minute's idleness is enough, whatever the bucket.
IdleMinute == Minute

\* Idle for this long, a bucket is dropped.
Idle == IF WholeSeconds < Minute THEN Minute ELSE WholeSeconds

SweepDue == clock >= sweepAt

Dropped(k) == SweepDue /\ Present(k) /\ clock - buckets[k].last > Idle

\* Bug: elapsed time is added without the ceiling.
RefilledUncapped(k) ==
    IF Present(k) /\ ~Dropped(k)
    THEN [tokens |-> buckets[k].tokens + (clock - buckets[k].last), last |-> clock]
    ELSE [tokens |-> Full, last |-> clock]

\* The caller's bucket as Allow finds or makes it, brought up to date.
Refilled(k) ==
    IF Present(k) /\ ~Dropped(k)
    THEN [tokens |-> Cap(buckets[k].tokens + (clock - buckets[k].last)), last |-> clock]
    ELSE [tokens |-> Full, last |-> clock]

Allow(k) ==
    LET b  == Refilled(k)
        ok == b.tokens >= Cost
    IN  /\ buckets' = [j \in Keys |->
              IF j = k THEN [b EXCEPT !.tokens = IF ok THEN @ - Cost ELSE @]
              ELSE IF Dropped(j) THEN NoBucket ELSE buckets[j]]
        /\ sweepAt' = IF SweepDue THEN clock + Minute ELSE sweepAt
        /\ asked' = [key |-> k, answer |-> IF ok THEN "admitted" ELSE "refused"]
        /\ UNCHANGED clock

Tick ==
    /\ clock < MaxTime
    /\ clock' = clock + 1
    /\ UNCHANGED <<buckets, sweepAt, asked>>

Next == Tick \/ \E k \in Keys : Allow(k)

Spec == Init /\ [][Next]_vars

-----------------------------------------------------------------------------
(* Properties *)

\* Every variable stays in its domain: no bucket holds more than its burst.
TypeOK ==
    /\ buckets \in [Keys -> Buckets \cup {NoBucket}]
    /\ sweepAt \in Nat
    /\ clock \in Nat
    /\ asked \in [key : Keys \cup {NoKey}, answer : {"none", "admitted", "refused"}]

\* What a caller's next event would find.
Available == [k \in Keys |->
    IF Present(k) THEN Cap(buckets[k].tokens + (clock - buckets[k].last)) ELSE Full]

Q == INSTANCE Quota WITH level <- Available

\* Allow keeps each caller's promise, module Quota: forgetting a bucket loses
\* and gains its caller nothing ("idle long enough to have refilled
\* completely"), and lazy refilling is as good as a refill every tick.
QuotaSpec == Q!Spec

\* sweep is "bounding memory under key churn": no event leaves a bucket behind
\* that has been idle for longer than the limit and the pause between sweeps.
IdleBucketsGo ==
    [][(\E k \in Keys : Allow(k)) =>
          \A j \in Keys : Present(j)' => clock - buckets'[j].last <= Idle + Minute]_vars

=============================================================================
