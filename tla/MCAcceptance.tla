---------------------------- MODULE MCAcceptance ----------------------------
(* Instances of Acceptance for TLC. *)
EXTENDS Acceptance, TLC

\* A direct sale of 3 and a brokered one of 2 with a commission of 1.
Direct == [structure |-> "p2p", mode |-> "instant", amount |-> 3, commission |-> 0,
           premium |-> 1, inspection |-> 0, delivery |-> 1, ttl |-> 1]
Resale == [Direct EXCEPT !.structure = "brokered", !.amount = 2, !.commission = 1]

MCDrafts == {Direct, Resale}

Symmetry == Permutations(Users) \cup Permutations(Handlers)

=============================================================================
