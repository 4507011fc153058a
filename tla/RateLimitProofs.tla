-------------------------- MODULE RateLimitProofs ---------------------------
(***************************************************************************)
(* The rate limiter keeps its callers' quotas, for any number of callers,  *)
(* any burst and rate: a bucket that a sweep drops has had the time to be  *)
(* full again (IdleCovers), so forgetting it changes no answer.            *)
(***************************************************************************)
EXTENDS RateLimit, TLAPS

\* Idle is a time, and never shorter than a bucket takes to fill.
LEMMA IdleCovers ==
    ASSUME RateLimitAssumption
    PROVE  Full \in Nat /\ Full >= Cost /\ Idle \in Nat /\ Idle >= Full
<1>1. Full \in Nat /\ Full >= Cost
  BY DEF RateLimitAssumption, Full
<1>2. Full \div Second \in Nat
  BY <1>1 DEF RateLimitAssumption
<1>3. WholeSeconds \in Nat
  BY <1>2 DEF RateLimitAssumption, WholeSeconds
<1> QED
  BY <1>1, <1>3 DEF RateLimitAssumption, Idle

\* A bucket and its absence are told apart by the time of last use.
LEMMA PresentBucket ==
    ASSUME TypeOK, NEW k \in Keys, Present(k)
    PROVE  buckets[k] \in Buckets
BY DEF TypeOK, Present

\* The ceiling keeps levels in range.
LEMMA CapRange ==
    ASSUME RateLimitAssumption, NEW n \in Nat
    PROVE  Cap(n) \in 0..Full
BY IdleCovers DEF Cap

\* No bucket is used after the present, nor kept longer than the next sweep,
\* which is at most a minute away.
InTime ==
    /\ sweepAt <= clock + Minute
    /\ \A k \in Keys : Present(k) =>
          /\ buckets[k].last <= clock
          /\ sweepAt <= buckets[k].last + Idle + Minute

IInv == TypeOK /\ InTime

\* Bringing a bucket up to date makes a bucket whose level is the caller's
\* available one.
LEMMA RefilledBucket ==
    ASSUME RateLimitAssumption, IInv, NEW k \in Keys
    PROVE  /\ Refilled(k) \in Buckets
           /\ Refilled(k).tokens = Available[k]
           /\ Refilled(k).last = clock
<1>0. clock \in Nat
  BY DEF IInv, TypeOK
<1>1. CASE ~Present(k)
  BY <1>0, <1>1, IdleCovers DEF Refilled, Available, Buckets
<1>2. CASE Present(k)
  <2>1. buckets[k].tokens \in 0..Full /\ buckets[k].last \in Nat /\ buckets[k].last <= clock
    BY <1>2, PresentBucket DEF IInv, InTime, Buckets
  <2>2. buckets[k].tokens + (clock - buckets[k].last) \in Nat
    BY <1>0, <2>1, IdleCovers
  <2>3. CASE Dropped(k)
    <3>1. buckets[k].tokens + (clock - buckets[k].last) >= Full
      BY <1>0, <2>1, <2>3, IdleCovers DEF Dropped
    <3>2. Available[k] = Full
      BY <1>2, <2>2, <3>1, IdleCovers DEF Available, Cap
    <3> QED
      BY <1>0, <2>3, <3>2, IdleCovers DEF Refilled, Buckets
  <2>4. CASE ~Dropped(k)
    BY <1>0, <1>2, <2>2, <2>4, CapRange DEF Refilled, Available, Buckets
  <2> QED
    BY <2>3, <2>4
<1> QED
  BY <1>1, <1>2

\* What Allow leaves the caller with.
LEMMA AllowOwn ==
    ASSUME RateLimitAssumption, IInv, NEW k \in Keys, Allow(k)
    PROVE  /\ buckets'[k] \in Buckets
           /\ buckets'[k].last = clock
           /\ buckets'[k].tokens =
                IF Available[k] >= Cost THEN Available[k] - Cost ELSE Available[k]
           /\ asked' = [key |-> k,
                       answer |-> IF Available[k] >= Cost THEN "admitted" ELSE "refused"]
<1> DEFINE b == Refilled(k)
<1>1. b \in Buckets /\ b.tokens = Available[k] /\ b.last = clock
  BY RefilledBucket
<1>2. buckets'[k] = [b EXCEPT !.tokens = IF b.tokens >= Cost THEN @ - Cost ELSE @]
  BY DEF Allow
<1>3. asked' = [key |-> k, answer |-> IF b.tokens >= Cost THEN "admitted" ELSE "refused"]
  BY DEF Allow
<1> QED
  BY <1>1, <1>2, <1>3, IdleCovers DEF RateLimitAssumption, Buckets

\* What Allow leaves the others with.
LEMMA AllowOthers ==
    ASSUME RateLimitAssumption, IInv, NEW k \in Keys, Allow(k), NEW j \in Keys, j # k
    PROVE  buckets'[j] = IF Dropped(j) THEN NoBucket ELSE buckets[j]
BY DEF Allow

-----------------------------------------------------------------------------

LEMMA InitIInv ==
    ASSUME RateLimitAssumption
    PROVE  Init => IInv
BY DEF RateLimitAssumption, Init, IInv, TypeOK, InTime, Present, NoBucket, Buckets

\* The domain of every variable is preserved.
LEMMA NextTypeOK ==
    ASSUME RateLimitAssumption, IInv, [Next]_vars
    PROVE  TypeOK'
<1>1. CASE UNCHANGED vars
  BY <1>1 DEF vars, IInv, TypeOK
<1>2. CASE Tick
  BY <1>2 DEF Tick, IInv, TypeOK
<1>3. ASSUME NEW k \in Keys, Allow(k)
      PROVE  TypeOK'
  <2>1. buckets' \in [Keys -> Buckets \cup {NoBucket}]
    <3>1. \A j \in Keys : buckets'[j] \in Buckets \cup {NoBucket}
      BY <1>3, AllowOwn, AllowOthers DEF IInv, TypeOK
    <3>2. DOMAIN buckets' = Keys /\ buckets' = [j \in Keys |-> buckets'[j]]
      BY <1>3 DEF Allow
    <3> QED
      BY <3>1, <3>2
  <2>2. sweepAt' \in Nat /\ clock' \in Nat
    BY <1>3 DEF RateLimitAssumption, Allow, IInv, TypeOK
  <2>3. asked' \in [key : Keys \cup {NoKey}, answer : {"none", "admitted", "refused"}]
    BY <1>3, AllowOwn
  <2> QED
    BY <2>1, <2>2, <2>3 DEF TypeOK
<1> QED
  BY <1>1, <1>2, <1>3 DEF Next

\* After an event the next sweep is still ahead of every bucket's limit.
LEMMA AllowInTime ==
    ASSUME RateLimitAssumption, IInv, NEW k \in Keys, Allow(k), NEW j \in Keys, Present(j)'
    PROVE  /\ buckets'[j].last <= clock
           /\ sweepAt' <= buckets'[j].last + Idle + Minute
           /\ clock - buckets'[j].last <= Idle + Minute
<1>0. clock \in Nat /\ sweepAt \in Nat /\ Minute \in Nat /\ Idle \in Nat
  BY IdleCovers DEF RateLimitAssumption, IInv, TypeOK
<1>1. sweepAt' = IF SweepDue THEN clock + Minute ELSE sweepAt
  BY DEF Allow
<1>2. CASE j = k
  <2>1. buckets'[j].last = clock
    BY <1>2, AllowOwn
  <2>2. sweepAt <= clock + Minute
    BY DEF IInv, InTime
  <2> QED
    BY <1>0, <1>1, <2>1, <2>2
<1>3. CASE j # k
  <2>1. buckets'[j] = buckets[j] /\ ~Dropped(j) /\ Present(j)
    BY <1>3, AllowOthers DEF Present
  <2>2. buckets[j].last \in Nat /\ buckets[j].last <= clock
          /\ sweepAt <= buckets[j].last + Idle + Minute
    BY <2>1, PresentBucket DEF IInv, InTime, Buckets
  <2>3. SweepDue => clock - buckets[j].last <= Idle
    BY <1>0, <2>1, <2>2 DEF Dropped
  <2> QED
    BY <1>0, <1>1, <2>1, <2>2, <2>3 DEF SweepDue
<1> QED
  BY <1>2, <1>3

LEMMA NextInTime ==
    ASSUME RateLimitAssumption, IInv, [Next]_vars
    PROVE  InTime'
<1>1. CASE UNCHANGED vars
  BY <1>1 DEF vars, IInv, InTime, Present
<1>2. CASE Tick
  <2>1. clock \in Nat /\ clock' = clock + 1 /\ buckets' = buckets /\ sweepAt' = sweepAt
    BY <1>2 DEF Tick, IInv, TypeOK
  <2>2. ASSUME NEW k \in Keys, Present(k)
        PROVE  buckets[k].last <= clock' /\ sweepAt <= buckets[k].last + Idle + Minute
    BY <2>1, <2>2, PresentBucket DEF IInv, InTime, Buckets
  <2>3. sweepAt <= clock' + Minute
    BY <2>1 DEF RateLimitAssumption, IInv, TypeOK, InTime
  <2> QED
    BY <2>1, <2>2, <2>3 DEF InTime, Present
<1>3. ASSUME NEW k \in Keys, Allow(k)
      PROVE  InTime'
  <2>1. clock' = clock /\ sweepAt' <= clock + Minute
    BY <1>3 DEF RateLimitAssumption, Allow, IInv, TypeOK, InTime
  <2> QED
    BY <1>3, <2>1, AllowInTime DEF InTime
<1> QED
  BY <1>1, <1>2, <1>3 DEF Next

LEMMA Invariance ==
    ASSUME RateLimitAssumption
    PROVE  Spec => []IInv
<1>1. IInv /\ [Next]_vars => IInv'
  BY NextTypeOK, NextInTime DEF IInv
<1> QED
  BY <1>1, InitIInv, PTL DEF Spec

-----------------------------------------------------------------------------

\* Buckets hold at most their burst, whatever the calls and the pauses.
THEOREM TypeCorrect ==
    ASSUME RateLimitAssumption
    PROVE  Spec => []TypeOK
<1>1. IInv => TypeOK
  BY DEF IInv
<1> QED
  BY <1>1, Invariance, PTL

\* Idle buckets do not pile up: no event leaves one behind that has outlived
\* the idle time and the pause between two sweeps.
THEOREM IdleBucketsAreDropped ==
    ASSUME RateLimitAssumption
    PROVE  Spec => IdleBucketsGo
<1>1. IInv /\ [Next]_vars =>
        [(\E k \in Keys : Allow(k)) =>
            \A j \in Keys : Present(j)' => clock - buckets'[j].last <= Idle + Minute]_vars
  BY AllowInTime
<1> QED
  BY <1>1, Invariance, PTL DEF Spec, IdleBucketsGo

-----------------------------------------------------------------------------

\* A tick refills every caller by one unit.
LEMMA TickRefills ==
    ASSUME RateLimitAssumption, IInv, Tick
    PROVE  Q!Refill
<1>0. clock \in Nat /\ clock' = clock + 1 /\ buckets' = buckets /\ asked' = asked
  BY DEF Tick, IInv, TypeOK
<1>1. ASSUME NEW k \in Keys
      PROVE  Available'[k] = IF Available[k] < Full THEN Available[k] + 1 ELSE Full
  <2>1. CASE Present(k)
    <3>1. buckets[k].tokens \in 0..Full /\ buckets[k].last \in Nat /\ buckets[k].last <= clock
      BY <2>1, PresentBucket DEF IInv, InTime, Buckets
    <3>2. Available[k] = Cap(buckets[k].tokens + (clock - buckets[k].last))
      BY <2>1 DEF Available
    <3>3. Available'[k] = Cap(buckets'[k].tokens + (clock' - buckets'[k].last))
      <4>1. Present(k)'
        BY <1>0, <2>1 DEF Present
      <4> QED
        BY <4>1 DEF Available, Cap, Full
    <3> QED
      BY <1>0, <3>1, <3>2, <3>3, IdleCovers DEF Cap
  <2>2. CASE ~Present(k)
    BY <1>0, <2>2, IdleCovers DEF Available, Present, Full
  <2> QED
    BY <2>1, <2>2
<1>2. Available' = [k \in Keys |-> Available'[k]]
  BY DEF Available
<1> QED
  BY <1>0, <1>1, <1>2 DEF Q!Refill, Q!Full, Full

\* An event takes from its caller's level alone, and is answered by it.
LEMMA AllowAnswers ==
    ASSUME RateLimitAssumption, IInv, NEW k \in Keys, Allow(k)
    PROVE  Q!Admit(k) \/ Q!Refuse(k)
<1> DEFINE left == IF Available[k] >= Cost THEN Available[k] - Cost ELSE Available[k]
<1>0. clock \in Nat /\ clock' = clock
  BY DEF Allow, IInv, TypeOK
<1>1. Available[k] \in 0..Full
  BY RefilledBucket DEF Buckets
<1>2. Available'[k] = left
  <2>1. buckets'[k] \in Buckets /\ buckets'[k].last = clock /\ buckets'[k].tokens = left
    BY AllowOwn
  <2>2. Present(k)'
    BY <2>1 DEF Present, NoBucket, Buckets
  <2>3. left \in 0..Full
    BY <1>1, IdleCovers DEF RateLimitAssumption
  <2>4. Available'[k] = Cap(buckets'[k].tokens + (clock' - buckets'[k].last))
    BY <2>2 DEF Available, Cap, Full
  <2> QED
    BY <1>0, <2>1, <2>3, <2>4, IdleCovers DEF Cap
<1>3. ASSUME NEW j \in Keys, j # k
      PROVE  Available'[j] = Available[j]
  <2>1. buckets'[j] = IF Dropped(j) THEN NoBucket ELSE buckets[j]
    BY <1>3, AllowOthers
  <2>2. CASE Dropped(j)
    <3>1. Available'[j] = Full
      BY <2>1, <2>2 DEF Available, Present, Full
    <3>2. Refilled(j).tokens = Full
      BY <2>2 DEF Refilled
    <3> QED
      BY <3>1, <3>2, RefilledBucket
  <2>3. CASE ~Dropped(j)
    BY <1>0, <2>1, <2>3 DEF Available, Present, Cap, Full
  <2> QED
    BY <2>2, <2>3
<1>4. Available' = [Available EXCEPT ![k] = left]
  <2>1. Available' = [j \in Keys |-> Available'[j]] /\ Available = [j \in Keys |-> Available[j]]
    BY DEF Available
  <2> QED
    BY <1>2, <1>3, <2>1
<1>5. asked' = [key |-> k,
                       answer |-> IF Available[k] >= Cost THEN "admitted" ELSE "refused"]
  BY AllowOwn
<1>6. CASE Available[k] >= Cost
  BY <1>4, <1>5, <1>6 DEF Q!Admit
<1>7. CASE ~(Available[k] >= Cost)
  <2>1. Available[k] < Cost
    BY <1>1, <1>7, IdleCovers DEF RateLimitAssumption
  <2>2. \A j \in Keys : Available'[j] = Available[j]
    BY <1>2, <1>3, <1>7
  <2>3. Available' = [j \in Keys |-> Available'[j]] /\ Available = [j \in Keys |-> Available[j]]
    BY DEF Available
  <2>4. Available' = Available
    BY <2>2, <2>3
  <2> QED
    BY <1>5, <1>7, <2>1, <2>4 DEF Q!Refuse
<1> QED
  BY <1>6, <1>7

\* The limiter implements the quota of every caller, module Quota: neither the
\* lazy refill nor a sweep shows in any answer.
THEOREM ImplementsQuota ==
    ASSUME RateLimitAssumption
    PROVE  Spec => QuotaSpec
<1>1. Init => Q!Init
  BY DEF Init, Q!Init, Q!Nobody, Q!Full, Full, Available, Present, NoBucket
<1>2. IInv /\ [Next]_vars => [Q!Next]_(<<Available, asked>>)
  <2> SUFFICES ASSUME IInv, [Next]_vars
               PROVE  Q!Next \/ UNCHANGED <<Available, asked>>
    OBVIOUS
  <2>1. CASE UNCHANGED vars
    BY <2>1 DEF vars, Available, Present, Cap, Full
  <2>2. CASE Tick
    BY <2>2, TickRefills DEF Q!Next
  <2>3. ASSUME NEW k \in Keys, Allow(k)
        PROVE  Q!Next
    BY <2>3, AllowAnswers DEF Q!Next
  <2> QED
    BY <2>1, <2>2, <2>3 DEF Next
<1> QED
  BY <1>1, <1>2, Invariance, PTL DEF Spec, QuotaSpec, Q!Spec

-----------------------------------------------------------------------------
(* The allowance of a stretch of time.  Two history variables watch the    *)
(* limiter without touching it: what each caller has spent since a moment  *)
(* that may be chosen anew at any time.                                    *)

VARIABLES
    spent,     \* units each caller was admitted for since then
    opened     \* that moment

watched == <<vars, spent, opened>>

OpenWindow == spent' = [k \in Keys |-> 0] /\ opened' = clock /\ UNCHANGED vars

Count ==
    /\ Next
    /\ spent' = [k \in Keys |->
          IF Allow(k) /\ asked'.answer = "admitted" THEN spent[k] + Cost ELSE spent[k]]
    /\ UNCHANGED opened

WatchedInit == Init /\ spent = [k \in Keys |-> 0] /\ opened = clock

WatchedSpec == WatchedInit /\ [][Count \/ OpenWindow]_watched

\* Over any stretch of time a caller is admitted for its burst and what refills
\* meanwhile, at most.
AllowanceKept == \A k \in Keys : spent[k] <= Full + (clock - opened)

\* It holds because what is spent and what is left never exceed that together.
Budget ==
    /\ spent \in [Keys -> Nat] /\ opened \in Nat /\ opened <= clock
    /\ \A k \in Keys : spent[k] + Available[k] <= Full + (clock - opened)

\* The watched limiter is the limiter.
LEMMA WatchedIsSpec == WatchedSpec => Spec
<1>1. WatchedInit => Init
  BY DEF WatchedInit
<1>2. [Count \/ OpenWindow]_watched => [Next]_vars
  BY DEF Count, OpenWindow, watched, vars
<1> QED
  BY <1>1, <1>2, PTL DEF WatchedSpec, Spec

\* What a caller has left is a level.
LEMMA AvailableRange ==
    ASSUME RateLimitAssumption
    PROVE  IInv => \A k \in Keys : Available[k] \in 0..Full
BY RefilledBucket DEF Buckets

\* No step spends more than it takes from the level, or than time brings.
LEMMA BudgetStep ==
    ASSUME RateLimitAssumption
    PROVE  IInv /\ IInv' /\ Budget /\ [Count \/ OpenWindow]_watched => Budget'
<1> SUFFICES ASSUME IInv, IInv', Budget, [Count \/ OpenWindow]_watched
             PROVE  Budget'
  OBVIOUS
<1>0. /\ Full \in Nat /\ Cost \in Nat /\ clock \in Nat
      /\ \A k \in Keys : Available[k] \in 0..Full /\ spent[k] \in Nat
  BY IdleCovers, AvailableRange DEF RateLimitAssumption, IInv, TypeOK, Budget
<1>1. CASE UNCHANGED watched
  <2>1. Available' = Available
    BY <1>1 DEF watched, vars, Available, Present, Cap, Full
  <2> QED
    BY <1>1, <2>1 DEF watched, vars, Budget, Full
<1>2. CASE OpenWindow
  <2>1. Available' = Available
    BY <1>2 DEF OpenWindow, vars, Available, Present, Cap, Full
  <2> QED
    BY <1>0, <1>2, <2>1 DEF OpenWindow, vars, Budget, Full
<1>3. CASE Count /\ Tick
  <2>1. Available' = [k \in Keys |-> IF Available[k] < Full THEN Available[k] + 1 ELSE Full]
    BY <1>3, TickRefills DEF Q!Refill, Q!Full, Full
  <2>2. ASSUME NEW k \in Keys
        PROVE  spent'[k] = spent[k]
    <3>1. ~Allow(k)
      BY <1>0, <1>3 DEF Tick, Allow
    <3> QED
      BY <1>3, <3>1 DEF Count
  <2>3. spent' \in [Keys -> Nat]
    BY <1>0, <1>3, <2>2 DEF Count
  <2>4. clock' = clock + 1 /\ opened' = opened
    BY <1>3 DEF Tick, Count
  <2>5. ASSUME NEW k \in Keys
        PROVE  spent'[k] + Available'[k] <= Full + (clock' - opened')
    BY <1>0, <2>1, <2>2, <2>4 DEF Budget
  <2> QED
    BY <1>0, <2>3, <2>4, <2>5 DEF Budget, Full
<1>4. ASSUME NEW k \in Keys, Count, Allow(k)
      PROVE  Budget'
  <2>1. clock' = clock /\ opened' = opened /\ asked'.key = k
    BY <1>4 DEF Allow, Count
  <2>2. \A j \in Keys \ {k} : spent'[j] = spent[j]
    BY <1>4, <2>1 DEF Allow, Count
  <2>3. CASE asked'.answer = "admitted"
    <3>1. Available[k] >= Cost /\ Available' = [Available EXCEPT ![k] = @ - Cost]
      BY <1>4, <2>3, AllowAnswers DEF Q!Admit, Q!Refuse
    <3>2. spent'[k] = spent[k] + Cost
      BY <1>4, <2>3 DEF Count
    <3>3. spent' \in [Keys -> Nat]
      BY <1>0, <1>4, <2>2, <3>2 DEF Count
    <3>4. Available'[k] = Available[k] - Cost /\ \A j \in Keys \ {k} : Available'[j] = Available[j]
      BY <3>1 DEF Available
    <3>5. ASSUME NEW j \in Keys
          PROVE  spent'[j] + Available'[j] <= Full + (clock' - opened')
      BY <1>0, <2>1, <2>2, <3>2, <3>4 DEF Budget
    <3> QED
      BY <1>0, <2>1, <3>3, <3>5 DEF Budget, Full
  <2>4. CASE asked'.answer # "admitted"
    <3>1. Available' = Available
      BY <1>4, <2>4, AllowAnswers DEF Q!Admit, Q!Refuse
    <3>2. spent'[k] = spent[k]
      BY <1>4, <2>4 DEF Count
    <3>3. spent' \in [Keys -> Nat]
      BY <1>0, <1>4, <2>2, <3>2 DEF Count
    <3>4. ASSUME NEW j \in Keys
          PROVE  spent'[j] + Available'[j] <= Full + (clock' - opened')
      BY <1>0, <2>1, <2>2, <3>1, <3>2 DEF Budget
    <3> QED
      BY <1>0, <2>1, <3>3, <3>4 DEF Budget, Full
  <2> QED
    BY <2>3, <2>4
<1> QED
  BY <1>1, <1>2, <1>3, <1>4 DEF Count, Next

\* The limiter bounds a caller over any stretch of time, idle sweeps included:
\* no more than the burst and the refill of that time, whatever other callers do.
THEOREM AllowanceIsKept ==
    ASSUME RateLimitAssumption
    PROVE  WatchedSpec => []AllowanceKept
<1>1. WatchedInit => Budget
  <2> SUFFICES ASSUME WatchedInit
               PROVE  Budget
    OBVIOUS
  <2>1. \A k \in Keys : Available[k] = Full
    BY DEF WatchedInit, Init, Available, Present
  <2> QED
    BY <2>1, IdleCovers DEF WatchedInit, Init, Budget
<1>2. IInv /\ Budget => AllowanceKept
  <2> SUFFICES ASSUME IInv, Budget, NEW k \in Keys
               PROVE  spent[k] <= Full + (clock - opened)
    BY DEF AllowanceKept
  <2>1. Available[k] \in 0..Full /\ spent[k] \in Nat /\ clock \in Nat /\ Full \in Nat
    BY IdleCovers, AvailableRange DEF IInv, TypeOK, Budget
  <2> QED
    BY <2>1 DEF Budget
<1> QED
  BY <1>1, <1>2, BudgetStep, WatchedIsSpec, Invariance, PTL DEF WatchedSpec

=============================================================================
