------------------------------- MODULE Quota --------------------------------
(***************************************************************************)
(* What a rate limiter promises each caller: an allowance of Burst events  *)
(* that refills by one unit per tick, an event costing Cost units, and an  *)
(* answer that depends on that caller's own past alone.                    *)
(***************************************************************************)
EXTENDS Integers

CONSTANTS Keys, Cost, Burst, NoKey

Full == Burst * Cost

VARIABLES
    level,   \* what each caller has left
    asked    \* the latest event and its answer

Nobody == [key |-> NoKey, answer |-> "none"]

Init ==
    /\ level = [k \in Keys |-> Full]
    /\ asked = Nobody

Admit(k) ==
    /\ level[k] >= Cost
    /\ level' = [level EXCEPT ![k] = @ - Cost]
    /\ asked' = [key |-> k, answer |-> "admitted"]

Refuse(k) ==
    /\ level[k] < Cost
    /\ asked' = [key |-> k, answer |-> "refused"]
    /\ UNCHANGED level

Refill ==
    /\ level' = [k \in Keys |-> IF level[k] < Full THEN level[k] + 1 ELSE Full]
    /\ UNCHANGED asked

Next == Refill \/ \E k \in Keys : Admit(k) \/ Refuse(k)

Spec == Init /\ [][Next]_<<level, asked>>

=============================================================================
