---------------------------- MODULE MCLifecycle -----------------------------
(* Instances of Lifecycle for TLC. *)
EXTENDS Lifecycle, TLC

P2PInstant == [structure |-> "p2p", mode |-> "instant", amount |-> 10, commission |-> 0,
               premium |-> 1, inspection |-> 0, delivery |-> 1, ttl |-> 1]
BrokeredCooldown == [structure |-> "brokered", mode |-> "cooldown", amount |-> 10,
                     commission |-> 3, premium |-> 1, inspection |-> 1, delivery |-> 1,
                     ttl |-> 1]

MCTerms == {P2PInstant, BrokeredCooldown}

HandlerSymmetry == Permutations(Requests)

=============================================================================
